---- MODULE Spec2Model ----
(***************************************************************************)
(* A model of cppx (DotSowiet/cppx): the set-valued TOML array helpers of  *)
(* the configuration store, the polling FileWatcher with the watch         *)
(* callback of handle_watch, handle_build, the PackageManager, the         *)
(* settings reader, the dependency commands and the global document.       *)
(*                                                                         *)
(* The specifications share the module, one per subsystem:                 *)
(*   ArrSpec        updateTomlArray / removeFromTomlArray on one array     *)
(*   WatchSpec      handle_watch: the watcher thread, the directory, SIGINT*)
(*   FairWatchSpec  WatchSpec with a scheduled watcher thread (liveness)   *)
(*   StopSpec       the watcher thread and the owner of its stop token     *)
(*   BuildSpec      handle_build, its three build-output kinds             *)
(*   PkgSpec        PackageManager: lookups in the report, remove          *)
(*   SettingsSpec   getProjectSettings                                     *)
(*   SyncSpec       the watcher and config.toml, callbacks in two steps    *)
(*   RaceSpec       SyncSpec with a foreground command writing config.toml *)
(*   DepsSpec       handle_pkg_install and handle_pkg_remove               *)
(*   GlobalSpec     handle_project_set and handle_profile                  *)
(* Each leaves the variables of the other subsystems unchanged.            *)
(***************************************************************************)
EXTENDS Integers, Sequences, FiniteSets, TLC

VARIABLES
    arr,          \* ArrSpec: the toml::array being updated
    arr0,         \* ArrSpec: the array before the latest operation
    lastOp,       \* ArrSpec: "none" | "add" | "remove", the latest operation
    lastArg,      \* ArrSpec: the argument of the latest operation (a sequence of strings)
    startNoDup,   \* ArrSpec: the initial array held no string twice
    dirFiles,     \* WatchSpec: the regular files of the watched directory, name -> mtime
    _snapshot,    \* WatchSpec: FileWatcher::_snapshot
    current,      \* WatchSpec: the local `current` of FileWatcher::run
    wpc,          \* WatchSpec: where the watcher thread stands
    pend,         \* WatchSpec: the keys the running for loop has still to visit
    fired,        \* WatchSpec: the callbacks fired since the latest snapshot attempt
    tick,         \* WatchSpec: "idle" | "ok" | "failed", the latest snapshot attempt
    lastGood,     \* WatchSpec: the snapshot of the latest completed tick (or of construction)
    srcFiles,     \* WatchSpec: the `src files` array of config.toml
    ignoredFiles, \* WatchSpec: the strings of [ignore] files of config.toml
    lastCb,       \* WatchSpec: <<>>, or the one callback run latest since the snapshot attempt:
                  \*   its arguments, `src files` before it, whether it rewrote config.toml
    stop_requested, \* WatchSpec: the static atomic_bool set by the SIGINT handler
    stoken,       \* WatchSpec: stop has been requested on the jthread's stop token
    stopAt,       \* StopSpec: where the watcher thread was when that happened
    srcfiles,     \* BuildSpec: ps.srcfiles, the `src files` entries as paths
    btype,        \* BuildSpec: ps.buildsettings.btype
    debug,        \* BuildSpec: the debug argument of handle_build
    bpc,          \* BuildSpec: "start" | "run" | "compile" | "done" | "failed"
    command,      \* BuildSpec: the single compiler command of the executable and shared kinds
    object_files, \* BuildSpec: object_files of the static branch
    invocations,  \* BuildSpec: the std::system calls made so far, with their exit status
    berror,       \* BuildSpec: <<>>, or the one CPPX_Exception thrown
    includepaths, \* BuildSpec: ps.includepaths, the `include directories` entries as paths
    LinkDirs,     \* BuildSpec: ps.LinkDirs, the `static_linked_dirs` entries as paths
    defines,      \* BuildSpec: ps.defines, the macros of [defines]
    build_config, \* BuildSpec: the build_config argument of handle_build, "" for none
    configurations, \* BuildSpec: the `configurations` value of config.toml
    buildDirExists, \* BuildSpec: <project>/build is a directory
    warned,       \* BuildSpec: the "Configuration not found" warning was printed
    report,       \* PkgSpec: <vendor>/install_log.json
    packageRef,   \* PkgSpec: the packageRef argument of the operation
    vendorDirs,   \* PkgSpec: the package references r with a directory <vendor>/r
    vendor0,      \* PkgSpec: vendorDirs when the operation was entered
    pop,          \* PkgSpec: the operation of PackageManager that was called
    ppc,          \* PkgSpec: the position of that operation
    installed,    \* PkgSpec: <<>>, or what checkIfInstalled returned
    info,         \* PkgSpec: <<>>, or the PackageInfo remove has captured
    presult,      \* PkgSpec: <<>>, or the PackageInfo the operation returned
    perror,       \* PkgSpec: <<>>, or the CPPX_Exception the operation threw
    plog,         \* PkgSpec: what the operation did so far, in order
    config,       \* SettingsSpec: the document config.toml
    spc,          \* SettingsSpec: the position of getProjectSettings
    sresult,      \* SettingsSpec: <<>>, or the ProjectSettings returned
    serror,       \* SettingsSpec: <<>>, or the CPPX_Exception thrown
    sdir,         \* SyncSpec: the watched directory, name -> mtime
    ssnap,        \* SyncSpec: FileWatcher::_snapshot
    scur,         \* SyncSpec: `current` of the last snapshot taken
    spos,         \* SyncSpec: where FileWatcher::run is: "loop", "created", "removed"
    spend,        \* SyncSpec: the keys the running loop has still to visit
    sticks,       \* SyncSpec: the number of turns of the loop started so far
    slast,        \* SyncSpec: how the last snapshot went: "idle", "ok", "failed"
    cbpc,         \* SyncSpec: "idle", or "parsed" while the callback runs
    cbev,         \* SyncSpec: <<>>, or the event of the last callback and its tick
    cbtbl,        \* SyncSpec: the table the callback parsed
    doc,          \* SyncSpec: config.toml on disk
    fgpc,         \* RaceSpec: the foreground command: "none", "idle", "parsed", "done"
    fgtbl,        \* RaceSpec: the table the foreground command parsed
    lastWriter,   \* RaceSpec: who wrote config.toml last: "none", "cb", "fg"
    ncb,          \* SyncSpec: per name, the creation and removal callbacks returned
    nenv,         \* SyncSpec: per name, the creations and removals that happened
    present0,     \* SyncSpec: the files present when the FileWatcher was constructed
    gfile,        \* GlobalSpec: ~/.cppxglobal.toml
    gprev,        \* GlobalSpec: the document before the last command
    gop,          \* GlobalSpec: the last command, its arguments, whether it succeeded
    gops,         \* GlobalSpec: the number of commands run
    lastSet,      \* GlobalSpec: <<>>, or the project of the last project set that succeeded
    idoc,         \* DepsSpec: config.toml
    idoc0,        \* DepsSpec: config.toml before the first command
    idocPrev,     \* DepsSpec: config.toml before the last command
    ilog,         \* DepsSpec: vendor/install_log.json
    ihist         \* DepsSpec: the commands that have run, in order

arrVars == <<arr, arr0, lastOp, lastArg, startNoDup>>
watchVars == <<dirFiles, _snapshot, current, wpc, pend, fired, tick, lastGood,
               srcFiles, ignoredFiles, lastCb, stop_requested, stoken, stopAt>>

\* what handle_build is given: its arguments and the settings it reads
buildIn == <<srcfiles, btype, debug, includepaths, LinkDirs, defines, build_config,
             configurations>>
buildVars == <<buildIn, bpc, command, object_files, invocations, berror,
               buildDirExists, warned>>

pkgVars == <<report, packageRef, vendorDirs, vendor0, pop, ppc, installed, info,
             presult, perror, plog>>

setVars == <<config, spc, sresult, serror>>

syncVars == <<sdir, ssnap, scur, spos, spend, sticks, slast, cbpc, cbev, cbtbl, doc,
              fgpc, fgtbl, lastWriter, ncb, nenv, present0>>

globalVars == <<gfile, gprev, gop, gops, lastSet>>

depsVars == <<idoc, idoc0, idocPrev, ilog, ihist>>

vars == <<arrVars, watchVars, buildVars, pkgVars, setVars, syncVars, globalVars, depsVars>>

\* what the actions of one subsystem leave alone
exceptArr == <<watchVars, buildVars, pkgVars, setVars, syncVars, globalVars, depsVars>>
exceptWatch == <<arrVars, buildVars, pkgVars, setVars, syncVars, globalVars, depsVars>>
exceptBuild == <<arrVars, watchVars, pkgVars, setVars, syncVars, globalVars, depsVars>>
exceptPkg == <<arrVars, watchVars, buildVars, setVars, syncVars, globalVars, depsVars>>
exceptSet == <<arrVars, watchVars, buildVars, pkgVars, syncVars, globalVars, depsVars>>
exceptGlobal == <<arrVars, watchVars, buildVars, pkgVars, setVars, syncVars, depsVars>>
exceptDeps == <<arrVars, watchVars, buildVars, pkgVars, setVars, syncVars, globalVars>>
exceptSync == <<arrVars, watchVars, buildVars, pkgVars, setVars, globalVars, depsVars>>

----------------------------------------------------------------------------
(* Bounds *)

MaxLen == 3       \* longest initial array of ArrSpec
MaxVals == 2      \* longest values_to_remove of ArrSpec
MaxTime == 2      \* modification times are 1..MaxTime
MaxDoc == 1       \* longest initial `src files` array of WatchSpec
MaxSrc == 3       \* longest source list of BuildSpec
MaxNodes == 2     \* most nodes of a report of PkgSpec
MaxTicks == 3     \* most turns of the watcher loop in SyncSpec
MaxEvents == 3    \* most creations and removals in SyncSpec
MaxOps == 3       \* most commands on the global document in GlobalSpec
MaxCmds == 2      \* most dependency commands in DepsSpec

----------------------------------------------------------------------------
(* toml nodes.  A node of a toml::array is a string node or a node of       *)
(* another type (integer, table, ...); val is the string value, or the     *)
(* rendering of the non-string value.                                      *)

StrNode(s) == [str |-> TRUE, val |-> s]
OtherNode(s) == [str |-> FALSE, val |-> s]

\* node.is_string() && node.as_string() && *(node.as_string()) == value
NodeEquals(node, value) == node.str /\ node.val = value

\* the sequences over S of length at most n
SeqUpTo(S, n) == UNION {[1..k -> S] : k \in 0..n}

\* the string values an array holds, and whether none occurs twice
StringsOf(a) == {a[i].val : i \in {j \in 1..Len(a) : a[j].str}}
NoDupStrings(a) ==
    \A i, j \in 1..Len(a) : (a[i].str /\ a[j].str /\ a[i].val = a[j].val) => i = j

----------------------------------------------------------------------------
(* updateTomlArray, src/helpers.hpp:573-588 *)

\* std::find_if: the index of the first node equal to value, Len(a)+1 for end()
RECURSIVE FindIf(_, _, _)
FindIf(a, value, i) ==
    IF i > Len(a) THEN i
    ELSE IF NodeEquals(a[i], value) THEN i
    ELSE FindIf(a, value, i + 1)

AlreadyPresent(a, value) == FindIf(a, value, 1) # Len(a) + 1

\* a plausible slip: push_back without the presence test
UpdateTomlArrayAlwaysPush(a, value) == Append(a, StrNode(value))

updateTomlArray(a, value) ==
    IF ~AlreadyPresent(a, value) THEN Append(a, StrNode(value)) ELSE a

----------------------------------------------------------------------------
(* removeFromTomlArray, src/helpers.hpp:589-619 *)

\* the inner loop: does some value_to_remove equal the string node?
RECURSIVE FoundMatch(_, _, _)
FoundMatch(node, values, k) ==
    IF k > Len(values) THEN FALSE
    ELSE IF node.val = values[k] THEN TRUE
    ELSE FoundMatch(node, values, k + 1)

\* the outer loop from node i on, new_toml_array being acc
RECURSIVE RemoveLoop(_, _, _, _)
RemoveLoop(a, values, i, acc) ==
    IF i > Len(a) THEN acc
    ELSE IF a[i].str
         THEN IF FoundMatch(a[i], values, 1)
              THEN RemoveLoop(a, values, i + 1, acc)
              ELSE RemoveLoop(a, values, i + 1, Append(acc, a[i]))
         ELSE RemoveLoop(a, values, i + 1, Append(acc, a[i]))

\* a plausible slip: stop at the first deleted node, copying the rest
RECURSIVE RemoveFirstOnly(_, _, _, _)
RemoveFirstOnly(a, values, i, acc) ==
    IF i > Len(a) THEN acc
    ELSE IF a[i].str /\ FoundMatch(a[i], values, 1)
         THEN acc \o SubSeq(a, i + 1, Len(a))
         ELSE RemoveFirstOnly(a, values, i + 1, Append(acc, a[i]))

RemoveFromTomlArrayFirstOnly(a, values) == RemoveFirstOnly(a, values, 1, <<>>)

removeFromTomlArray(a, values) == RemoveLoop(a, values, 1, <<>>)

----------------------------------------------------------------------------
(* ArrSpec: one array, updated by the two helpers *)

ArrStrings == {"include", "vendor/lib", "z"}
ArrNodes == {StrNode(s) : s \in ArrStrings} \cup {OtherNode("include")}

ArrStart ==
    /\ arr \in SeqUpTo(ArrNodes, MaxLen)
    /\ arr0 = arr
    /\ lastOp = "none"
    /\ lastArg = <<>>
    /\ startNoDup = NoDupStrings(arr)

\* the array subsystem at rest (the other specifications)
ArrIdle ==
    /\ arr = <<>>
    /\ arr0 = <<>>
    /\ lastOp = "none"
    /\ lastArg = <<>>
    /\ startNoDup = TRUE

UpdateTomlArray ==
    \E value \in ArrStrings :
        /\ arr0' = arr
        /\ arr' = updateTomlArray(arr, value)
        /\ lastOp' = "add"
        /\ lastArg' = <<value>>
        /\ UNCHANGED <<startNoDup, exceptArr>>

RemoveFromTomlArray ==
    \E values \in SeqUpTo(ArrStrings, MaxVals) :
        /\ arr0' = arr
        /\ arr' = removeFromTomlArray(arr, values)
        /\ lastOp' = "remove"
        /\ lastArg' = values
        /\ UNCHANGED <<startNoDup, exceptArr>>

ArrNext == UpdateTomlArray \/ RemoveFromTomlArray

----------------------------------------------------------------------------
(* Claims on the array helpers *)

Range(s) == {s[i] : i \in 1..Len(s)}

\* C1: updateTomlArray is an idempotent, order-preserving add: the array is
\* unchanged when it already holds a string element equal to the value and
\* otherwise the value is appended once at the end; a second add of the same
\* value changes nothing; adds create no duplicate in an array that had none.
C1_AddIdempotent ==
    /\ lastOp = "add" =>
          LET v == lastArg[1] IN
          /\ (v \in StringsOf(arr0)) => arr = arr0
          /\ (v \notin StringsOf(arr0)) => arr = arr0 \o <<StrNode(v)>>
          /\ updateTomlArray(arr, v) = arr
    /\ startNoDup => NoDupStrings(arr)

C1_Witness ==
    /\ lastOp = "add"
    /\ lastArg[1] \in StringsOf(arr0)
    /\ OtherNode(lastArg[1]) \in Range(arr0)
    /\ Len(arr0) >= 2

\* C2: removeFromTomlArray yields exactly the subsequence of the array whose
\* elements equal no member of values: every matching element goes, repeated
\* ones too, the survivors keep their order, and with no match the array is
\* unchanged.
C2_RemoveIsFilter ==
    lastOp = "remove" =>
        LET gone == Range(lastArg)
            Keep(n) == ~(n.str /\ n.val \in gone)
        IN /\ arr = SelectSeq(arr0, Keep)
           /\ (StringsOf(arr0) \cap gone = {}) => arr = arr0

C2_Witness ==
    /\ lastOp = "remove"
    /\ \E i, j \in 1..Len(arr0) :
          i < j /\ arr0[i] = arr0[j] /\ arr0[i].str /\ arr0[i].val \in Range(lastArg)
    /\ Len(arr) >= 1

----------------------------------------------------------------------------
(* The watched directory and the configuration document of WatchSpec *)

Names == {"a.cpp", "b.cpp"}
Times == 1..MaxTime

\* fmt::format("src/{}", name), src/main.cpp:576 and 589
Entry(name) == "src/" \o name

EmptyMap == [n \in {} |-> 1]

\* the maps name -> mtime over Names
Maps == UNION {[S -> Times] : S \in SUBSET Names}

\* the map m with key n set to t, and with key n erased
Put(m, n, t) == [k \in DOMAIN m \cup {n} |-> IF k = n THEN t ELSE m[k]]
Erase(m, n) == [k \in DOMAIN m \ {n} |-> m[k]]

\* the [ignore] files lists of WatchSpec
IgnoreLists == {{}, {"a.cpp"}}

DocNodes == {StrNode(Entry(n)) : n \in Names} \cup {OtherNode(Entry("a.cpp"))}

\* FileWatcher::snapshot_dir, src/helpers.cpp:575-586: filename -> last_write_time
\* of every regular file of the directory
snapshot_dir(dir) == [n \in DOMAIN dir |-> dir[n]]

----------------------------------------------------------------------------
(* The watch callback cb of handle_watch, src/main.cpp:557-606.  The       *)
(* document is a valid config.toml: parse_file and getProjectSettings      *)
(* succeed, and `src files` is an array.                                   *)

\* the removal branch, src/main.cpp:584-594: copy every node but the string
\* nodes equal to "src/<name>"
RECURSIVE CbRemoveLoop(_, _, _, _)
CbRemoveLoop(a, name, i, acc) ==
    IF i > Len(a) THEN acc
    ELSE IF a[i].str /\ a[i].val = Entry(name)
         THEN CbRemoveLoop(a, name, i + 1, acc)
         ELSE CbRemoveLoop(a, name, i + 1, Append(acc, a[i]))

\* a plausible slip: erase only the first equal node
RECURSIVE CbRemoveFirst(_, _, _, _)
CbRemoveFirst(a, name, i, acc) ==
    IF i > Len(a) THEN acc
    ELSE IF a[i].str /\ a[i].val = Entry(name)
         THEN acc \o SubSeq(a, i + 1, Len(a))
         ELSE CbRemoveFirst(a, name, i + 1, Append(acc, a[i]))

CbRemovedFirstOnly(a, name) == CbRemoveFirst(a, name, 1, <<>>)

CbRemoved(a, name) == CbRemoveLoop(a, name, 1, <<>>)

\* a plausible slip: the ignore list is not consulted
IsIgnoredNever(ign, name) == FALSE

\* std::ranges::find(projset.ignoredFiles, name) != end(), src/main.cpp:568-569
IsIgnored(ign, name) == name \in ign

\* the creation branch, src/main.cpp:574-577: push_back of "src/<name>"
CbCreated(a, name) == Append(a, StrNode(Entry(name)))

\* cb(name, created): the new `src files` array and whether the document is
\* rewritten (src/main.cpp:598-599 is skipped by the return at 572)
CbWrites(ign, name, created) == ~(created /\ IsIgnored(ign, name))

CbSrcFiles(a, ign, name, created) ==
    IF created
    THEN IF IsIgnored(ign, name) THEN a ELSE CbCreated(a, name)
    ELSE CbRemoved(a, name)

\* the callback fired by the watcher thread
Callback(name, created) ==
    /\ srcFiles' = CbSrcFiles(srcFiles, ignoredFiles, name, created)
    /\ lastCb' = <<[name |-> name, created |-> created, before |-> srcFiles,
                    wrote |-> CbWrites(ignoredFiles, name, created)]>>
    /\ fired' = Append(fired, <<name, created>>)

NoCallback == UNCHANGED <<srcFiles, lastCb, fired>>

----------------------------------------------------------------------------
(* The watcher thread: the lambda of handle_watch (src/main.cpp:615-621)    *)
(* and FileWatcher::run (src/helpers.cpp:532-573).  wpc is one of           *)
(*   "outer"    the while test of the lambda, main.cpp:617                  *)
(*   "loop"     the while test of run and sleep_for, helpers.cpp:534-536    *)
(*   "snap"     the snapshot attempt, helpers.cpp:538-553                   *)
(*   "created"  the loop over current, helpers.cpp:556-562                  *)
(*   "removed"  the loop over _snapshot and the move, helpers.cpp:563-571   *)
(*   "returned" the thread has ended, join and handle_watch have returned   *)

\* a plausible slip: a changed modification time counts as a creation
IsNewOrModified(snap, cur, p) == p \notin DOMAIN snap \/ snap[p] # cur[p]

\* the test of the first loop, helpers.cpp:558
IsNew(snap, cur, p) == p \notin DOMAIN snap

\* a plausible slip: the second loop never finds a file gone
IsGoneNever(cur, p) == FALSE

\* the test of the second loop, helpers.cpp:565
IsGone(cur, p) == p \notin DOMAIN cur

\* main.cpp:617: while (!st.stop_requested() && !stop_requested) fw.run(st);
OuterCheck ==
    /\ wpc = "outer"
    /\ wpc' = IF ~stoken /\ ~stop_requested THEN "loop" ELSE "returned"
    /\ UNCHANGED <<exceptWatch, dirFiles, _snapshot, current, pend, fired, tick, lastGood,
                   srcFiles, ignoredFiles, lastCb, stop_requested, stoken, stopAt>>

\* a plausible slip: run does not test its stop token
LoopCheckIgnoresToken ==
    /\ wpc = "loop"
    /\ wpc' = "snap"
    /\ UNCHANGED <<exceptWatch, dirFiles, _snapshot, current, pend, fired, tick, lastGood,
                   srcFiles, ignoredFiles, lastCb, stop_requested, stoken, stopAt>>

\* helpers.cpp:534-536: while (!stoken.stop_requested()), then sleep_for(_interval)
LoopCheck ==
    /\ wpc = "loop"
    /\ wpc' = IF ~stoken THEN "snap" ELSE "outer"
    /\ UNCHANGED <<exceptWatch, dirFiles, _snapshot, current, pend, fired, tick, lastGood,
                   srcFiles, ignoredFiles, lastCb, stop_requested, stoken, stopAt>>

\* helpers.cpp:540: current = snapshot_dir() returns
SnapshotOk ==
    /\ wpc = "snap"
    /\ current' = snapshot_dir(dirFiles)
    /\ pend' = DOMAIN current'
    /\ fired' = <<>>
    /\ lastCb' = <<>>
    /\ tick' = "ok"
    /\ wpc' = "created"
    /\ UNCHANGED <<exceptWatch, dirFiles, _snapshot, lastGood, srcFiles, ignoredFiles, stop_requested, stoken, stopAt>>

\* a plausible slip: the catch block lacks its `continue`, so the diff runs
\* against the empty `current`
SnapshotFailFallsThrough ==
    /\ wpc = "snap"
    /\ current' = EmptyMap
    /\ pend' = {}
    /\ fired' = <<>>
    /\ lastCb' = <<>>
    /\ tick' = "failed"
    /\ wpc' = "created"
    /\ UNCHANGED <<exceptWatch, dirFiles, _snapshot, lastGood, srcFiles, ignoredFiles, stop_requested, stoken, stopAt>>

\* helpers.cpp:542-553: snapshot_dir() throws; the error is printed and the
\* loop continues with its next test
SnapshotFail ==
    /\ wpc = "snap"
    /\ fired' = <<>>
    /\ lastCb' = <<>>
    /\ tick' = "failed"
    /\ wpc' = "loop"
    /\ UNCHANGED <<exceptWatch, dirFiles, _snapshot, current, pend, lastGood, srcFiles,
                   ignoredFiles, stop_requested, stoken, stopAt>>

\* helpers.cpp:556-562: one key of current, in the map's (unspecified) order
CreatedLoop ==
    /\ wpc = "created"
    /\ IF pend = {}
       THEN /\ wpc' = "removed"
            /\ pend' = DOMAIN _snapshot
            /\ NoCallback
       ELSE \E p \in pend :
            /\ pend' = pend \ {p}
            /\ wpc' = wpc
            /\ IF IsNew(_snapshot, current, p) THEN Callback(p, TRUE) ELSE NoCallback
    /\ UNCHANGED <<exceptWatch, dirFiles, _snapshot, current, tick, lastGood, ignoredFiles,
                   stop_requested, stoken, stopAt>>

\* helpers.cpp:563-571: one key of _snapshot; after the last one
\* _snapshot = std::move(current)
RemovedLoop ==
    /\ wpc = "removed"
    /\ IF pend = {}
       THEN /\ _snapshot' = current
            /\ lastGood' = current
            /\ current' = EmptyMap
            /\ wpc' = "loop"
            /\ pend' = pend
            /\ NoCallback
       ELSE \E p \in pend :
            /\ pend' = pend \ {p}
            /\ wpc' = wpc
            /\ IF IsGone(current, p) THEN Callback(p, FALSE) ELSE NoCallback
            /\ UNCHANGED <<_snapshot, lastGood, current>>
    /\ UNCHANGED <<exceptWatch, dirFiles, tick, ignoredFiles, stop_requested, stoken, stopAt>>

WatcherStep ==
    OuterCheck \/ LoopCheck \/ SnapshotOk \/ SnapshotFail
        \/ CreatedLoop \/ RemovedLoop

----------------------------------------------------------------------------
(* The environment of the watcher: the directory changes and SIGINT *)

\* a regular file appears in the watched directory
CreateFile ==
    /\ wpc # "returned"
    /\ \E n \in Names \ DOMAIN dirFiles, t \in Times : dirFiles' = Put(dirFiles, n, t)
    /\ UNCHANGED <<exceptWatch, _snapshot, current, wpc, pend, fired, tick, lastGood, srcFiles,
                   ignoredFiles, lastCb, stop_requested, stoken, stopAt>>

\* a file of the watched directory is deleted
RemoveFile ==
    /\ wpc # "returned"
    /\ \E n \in DOMAIN dirFiles : dirFiles' = Erase(dirFiles, n)
    /\ UNCHANGED <<exceptWatch, _snapshot, current, wpc, pend, fired, tick, lastGood, srcFiles,
                   ignoredFiles, lastCb, stop_requested, stoken, stopAt>>

\* a file of the watched directory is written: its modification time changes
ModifyFile ==
    /\ wpc # "returned"
    /\ \E n \in DOMAIN dirFiles : \E t \in Times \ {dirFiles[n]} :
          dirFiles' = Put(dirFiles, n, t)
    /\ UNCHANGED <<exceptWatch, _snapshot, current, wpc, pend, fired, tick, lastGood, srcFiles,
                   ignoredFiles, lastCb, stop_requested, stoken, stopAt>>

\* main.cpp:609-613: SIGINT runs signal_handler, which sets stop_requested
Sigint ==
    /\ wpc # "returned"
    /\ ~stop_requested
    /\ stop_requested' = TRUE
    /\ UNCHANGED <<exceptWatch, dirFiles, _snapshot, current, wpc, pend, fired, tick, lastGood,
                   srcFiles, ignoredFiles, lastCb, stoken, stopAt>>

\* handle_watch after main.cpp:616: the FileWatcher is constructed (its
\* _snapshot taken, helpers.cpp:526-530) and the lambda is at its while test
WatchStart ==
    /\ dirFiles \in {m \in Maps : \A n \in DOMAIN m : m[n] = 1}
    /\ _snapshot = snapshot_dir(dirFiles)
    /\ lastGood = _snapshot
    /\ current = EmptyMap
    /\ wpc = "outer"
    /\ pend = {}
    /\ fired = <<>>
    /\ tick = "idle"
    /\ srcFiles \in SeqUpTo(DocNodes, MaxDoc)
    /\ ignoredFiles \in IgnoreLists
    /\ lastCb = <<>>
    /\ stop_requested = FALSE
    /\ stoken = FALSE
    /\ stopAt = "none"

\* the watcher subsystem at rest (the other specifications)
WatchIdle ==
    /\ dirFiles = EmptyMap
    /\ _snapshot = EmptyMap
    /\ lastGood = EmptyMap
    /\ current = EmptyMap
    /\ wpc = "returned"
    /\ pend = {}
    /\ fired = <<>>
    /\ tick = "idle"
    /\ srcFiles = <<>>
    /\ ignoredFiles = {}
    /\ lastCb = <<>>
    /\ stop_requested = FALSE
    /\ stoken = FALSE
    /\ stopAt = "none"

WatchNext == WatcherStep \/ CreateFile \/ RemoveFile \/ ModifyFile \/ Sigint

\* std::jthread::request_stop: the owner of the thread requests stop on the
\* token that FileWatcher::run was given
RequestStop ==
    /\ wpc # "returned"
    /\ ~stoken
    /\ stoken' = TRUE
    /\ stopAt' = wpc
    /\ UNCHANGED <<exceptWatch, dirFiles, _snapshot, current, wpc, pend, fired, tick, lastGood,
                   srcFiles, ignoredFiles, lastCb, stop_requested>>

\* the watcher of a project without source entries and without ignored files
StopStart == WatchStart /\ srcFiles = <<>> /\ ignoredFiles = {}

StopNext == WatcherStep \/ CreateFile \/ RemoveFile \/ RequestStop

----------------------------------------------------------------------------
(* Claims on the watcher *)

\* how often event e was fired
Count(seq, e) == Cardinality({i \in 1..Len(seq) : seq[i] = e})

\* the callbacks the diff of snapshots P and C calls for
Due(P, C, n, created) ==
    IF created THEN n \in DOMAIN C \ DOMAIN P ELSE n \in DOMAIN P \ DOMAIN C

\* every callback of the running tick has been fired, _snapshot not yet replaced
TickDiffed == tick = "ok" /\ wpc = "removed" /\ pend = {}

\* C3: on a successful tick with previous snapshot P and new snapshot C the
\* callback runs exactly once with (name, true) for each name of C not in P,
\* exactly once with (name, false) for each name of P not in C, and never for
\* a name in both, whatever its modification times.
C3_TickFiresSetDifference ==
    (tick = "ok" /\ wpc \in {"created", "removed"}) =>
        \A n \in Names, c \in BOOLEAN :
            /\ Count(fired, <<n, c>>) <= (IF Due(_snapshot, current, n, c) THEN 1 ELSE 0)
            /\ TickDiffed =>
                   Count(fired, <<n, c>>) = (IF Due(_snapshot, current, n, c) THEN 1 ELSE 0)

C3_Witness ==
    /\ TickDiffed
    /\ Len(fired) = 1
    /\ \E n \in DOMAIN current \cap DOMAIN _snapshot : current[n] # _snapshot[n]

\* C4: a tick whose snapshot fails fires no callback, leaves the stored
\* snapshot as it was and goes on with the next iteration of the loop; the
\* next successful tick reports the changes since the stored snapshot.
C4_FailedTickSkipped ==
    /\ tick = "failed" =>
          /\ fired = <<>>
          /\ wpc \in {"loop", "snap"}
    /\ _snapshot = lastGood
    /\ TickDiffed =>
          \A n \in Names, c \in BOOLEAN :
              Due(lastGood, current, n, c) => Count(fired, <<n, c>>) = 1

C4_Witness ==
    /\ tick = "failed"
    /\ wpc = "snap"
    /\ DOMAIN dirFiles # DOMAIN _snapshot

\* C5: the creation branch of the watch callback is an idempotent add: after
\* it ran for a created file that is not ignored, "src/<name>" is in
\* `src files`, and the array is unchanged if the entry was already there.
C5_CreationIsIdempotentAdd ==
    (lastCb # <<>> /\ lastCb[1].created /\ lastCb[1].name \notin ignoredFiles) =>
        /\ Entry(lastCb[1].name) \in StringsOf(srcFiles)
        /\ Entry(lastCb[1].name) \in StringsOf(lastCb[1].before) =>
               srcFiles = lastCb[1].before

\* C6: the watch callback run for a created file whose name is in the
\* ignored-files list leaves the document as it was: nothing is added to
\* `src files` and config.toml is not rewritten.
C6_IgnoredCreationLeavesDocument ==
    (lastCb # <<>> /\ lastCb[1].created /\ lastCb[1].name \in ignoredFiles) =>
        /\ srcFiles = lastCb[1].before
        /\ ~lastCb[1].wrote

C6_Witness ==
    /\ lastCb # <<>>
    /\ lastCb[1].created
    /\ lastCb[1].name \in ignoredFiles
    /\ fired # <<>>
    /\ fired[Len(fired)] = <<lastCb[1].name, TRUE>>
    /\ srcFiles # <<>>

\* C7: the removal branch of the watch callback removes every `src files`
\* entry equal to "src/<name>" and nothing else: the other entries keep their
\* order, without such an entry the array is unchanged, and a second removal
\* changes nothing more.
C7_RemovalRemovesAllEqual ==
    (lastCb # <<>> /\ ~lastCb[1].created) =>
        LET e == Entry(lastCb[1].name)
            Keep(node) == ~(node.str /\ node.val = e)
        IN /\ srcFiles = SelectSeq(lastCb[1].before, Keep)
           /\ (e \notin StringsOf(lastCb[1].before)) => srcFiles = lastCb[1].before
           /\ CbRemoved(srcFiles, lastCb[1].name) = srcFiles

C7_Witness ==
    /\ lastCb # <<>>
    /\ ~lastCb[1].created
    /\ Count(lastCb[1].before, StrNode(Entry(lastCb[1].name))) = 2
    /\ Len(srcFiles) >= 1

\* C8: once SIGINT has set the stop flag while handle_watch runs, the
\* watcher loop eventually exits and handle_watch returns.
C8_SigintLeadsToReturn == stop_requested ~> (wpc = "returned")

\* the positions of FileWatcher::run inside one turn of its loop
InTick == {"snap", "created", "removed"}

\* C18: FileWatcher::run tests the stop token at the top of every turn of its
\* loop: once stop is requested no new tick starts; a tick in progress runs
\* to its end, its callbacks fire and the snapshot is replaced; run then
\* returns.
C18_StopAtTopOfIteration ==
    /\ [][(stoken /\ wpc = "loop" /\ wpc' # wpc) => wpc' = "outer"]_vars
    /\ [][(stoken /\ wpc \in InTick /\ wpc' # wpc) =>
            \/ wpc = "snap" /\ wpc' \in {"created", "loop"}
            \/ wpc = "created" /\ wpc' = "removed" /\ pend = {}
            \/ wpc = "removed" /\ wpc' = "loop" /\ pend = {} /\ _snapshot' = current]_vars
    /\ [][(stoken /\ wpc \in {"created", "removed"} /\ pend' # pend /\ wpc' = wpc) =>
            \E p \in pend \ pend' :
                LET due == IF wpc = "created" THEN p \notin DOMAIN _snapshot
                           ELSE p \notin DOMAIN current
                IN fired' = IF due THEN Append(fired, <<p, wpc = "created">>) ELSE fired]_vars
    /\ (stoken ~> (wpc = "returned"))

C18_Witness ==
    /\ stoken
    /\ stopAt = "created"
    /\ wpc = "returned"
    /\ tick = "ok"
    /\ Len(fired) = 2
    /\ _snapshot = snapshot_dir(dirFiles)
    /\ _snapshot # EmptyMap

----------------------------------------------------------------------------
(* Paths of handle_build.  A path is a record: abs (it has a root), dirs   *)
(* (its directory components) and file (the characters of its filename,    *)
(* <<>> for a directory path).                                             *)

Path(abs, dirs, file) == [abs |-> abs, dirs |-> dirs, file |-> file]

\* std::filesystem operator/ : an absolute right operand replaces the left one
PathJoin(a, b) == IF b.abs THEN b ELSE Path(a.abs, a.dirs \o b.dirs, b.file)

\* the index of the last period of a filename, 0 without one
RECURSIVE LastDot(_, _)
LastDot(file, i) ==
    IF i = 0 THEN 0 ELSE IF file[i] = "." THEN i ELSE LastDot(file, i - 1)

\* std::filesystem::path::stem: the filename up to its last period; the whole
\* filename for "." and "..", without a period, or when the only period leads
stem(p) ==
    LET f == p.file
        d == LastDot(f, Len(f))
    IN IF f = <<".">> \/ f = <<".", ".">> \/ d <= 1 THEN f ELSE SubSeq(f, 1, d - 1)

\* proj.path, and build_dir = fs::path(proj.path) / "build", src/main.cpp:360
ProjPath == Path(TRUE, <<"home", "proj">>, <<>>)
build_dir == PathJoin(ProjPath, Path(FALSE, <<"build">>, <<>>))

\* src/main.cpp:462-463: srcPath and obj_path of one source entry
SrcPath(src) == PathJoin(ProjPath, src)
ObjPath(src) ==
    PathJoin(build_dir, Path(FALSE, <<>>, stem(SrcPath(src)) \o <<".", "o">>))

\* ps.buildsettings.outputName, and the names of the artifacts built from it
output_name == <<"a", "p", "p">>
so_name(n) == <<"l", "i", "b">> \o n \o <<".", "s", "o">>
a_name(n) == <<"l", "i", "b">> \o n \o <<".", "a">>

\* the `src files` entries of BuildSpec: src/a.cpp, src/a.c, lib/a.cpp, src/b.cpp
SrcEntries ==
    { Path(FALSE, <<"src">>, <<"a", ".", "c", "p", "p">>),
      Path(FALSE, <<"src">>, <<"a", ".", "c">>),
      Path(FALSE, <<"lib">>, <<"a", ".", "c", "p", "p">>),
      Path(FALSE, <<"src">>, <<"b", ".", "c", "p", "p">>) }

BuildTypes == {"BUILD_EXECUTABLE", "BUILD_DYNAMICLINK", "BUILD_STATICLINK"}

\* the `include directories` lists of BuildSpec: none, or include and /usr/include
IncludeLists ==
    { <<>>,
      <<Path(FALSE, <<"include">>, <<>>), Path(TRUE, <<"usr", "include">>, <<>>)>> }

\* the `static_linked_dirs` lists of BuildSpec: none, or vendor/lib and /usr/lib
LinkDirLists ==
    { <<>>,
      <<Path(FALSE, <<"vendor", "lib">>, <<>>), Path(TRUE, <<"usr", "lib">>, <<>>)>> }

\* the [defines] tables of BuildSpec: none, or NDEBUG = "1"
DefineMaps == { {}, {[name |-> "NDEBUG", value |-> "1"]} }

\* ps.staticLinkFiles: the library m, and the archive vendor/libz.a
StaticLinkFiles ==
    << Path(FALSE, <<>>, <<"m">>),
       Path(FALSE, <<"vendor">>, <<"l", "i", "b", "z", ".", "a">>) >>

\* the arguments handle_build can be given as build_config
BuildConfigs == {"", "release"}

\* one entry of the `configurations` table: whether it is a table, the strings
\* of its `flags` array, its `output` when that is a string (<<>> otherwise)
Conf(name, istable, flags, output) ==
    [name |-> name, istable |-> istable, flags |-> flags, output |-> output]

\* the `configurations` value of config.toml: whether the key is present,
\* whether it is a table, and the entries of the table
Configurations(present, istable, confs) ==
    [present |-> present, istable |-> istable, confs |-> confs]

ConfigurationsValues ==
    { Configurations(FALSE, FALSE, {}),
      Configurations(TRUE, FALSE, {}),
      Configurations(TRUE, TRUE, {}),
      Configurations(TRUE, TRUE, {Conf("release", TRUE, <<"-O2">>, <<<<"r", "e", "l">>>>)}),
      Configurations(TRUE, TRUE, {Conf("release", TRUE, <<"-O2">>, <<>>)}),
      Configurations(TRUE, TRUE, {Conf("release", FALSE, <<>>, <<>>)}) }

\* what std::system can return: zero, or not
ExitStatuses == {0, 1}

\* one external command: the tool, the sources and objects it reads, the file
\* it writes, its mode flags
Cmd(tool, srcs, objs, out, flags) ==
    [tool |-> tool, srcs |-> srcs, objs |-> objs, out |-> out, flags |-> flags]

Ran(cmd, status) == [cmd |-> cmd, status |-> status]

\* src/main.cpp:412-415: every source joined with the project root
RECURSIVE AllSrcPaths(_)
AllSrcPaths(srcs) ==
    IF srcs = <<>> THEN <<>> ELSE <<SrcPath(Head(srcs))>> \o AllSrcPaths(Tail(srcs))

\* src/main.cpp:404-410, 467-473: an include directory as it is passed after -I
IncDir(inc) == IF inc.abs THEN inc ELSE PathJoin(ProjPath, inc)

RECURSIVE AllIncDirs(_)
AllIncDirs(incs) ==
    IF incs = <<>> THEN <<>> ELSE <<IncDir(Head(incs))>> \o AllIncDirs(Tail(incs))

\* std::filesystem::path::extension: the filename from its last period on
extension(p) ==
    LET f == p.file
        d == LastDot(f, Len(f))
    IN IF f = <<".">> \/ f = <<".", ".">> \/ d <= 1 THEN <<>> ELSE SubSeq(f, d, Len(f))

\* src/main.cpp:417-429: a library is passed as the path it was written as
\* when it ends in .a, .so or .lib, and after -l otherwise
LibArg(lib) ==
    [direct |-> extension(lib) \in {<<".", "a">>, <<".", "s", "o">>, <<".", "l", "i", "b">>},
     lib |-> lib]

RECURSIVE AllLibArgs(_)
AllLibArgs(libs) ==
    IF libs = <<>> THEN <<>> ELSE <<LibArg(Head(libs))>> \o AllLibArgs(Tail(libs))

\* src/main.cpp:431-434: a link directory as it is passed after -L
LinkDirArg(libpath) == libpath

RECURSIVE AllLinkDirArgs(_)
AllLinkDirArgs(dirs) ==
    IF dirs = <<>> THEN <<>> ELSE <<LinkDirArg(Head(dirs))>> \o AllLinkDirArgs(Tail(dirs))

\* the options of a compiler invocation next to those of Cmd: the extra flags
\* of the named configuration, the -I, library, -L and -D arguments
Opts(extra, incs, libs, libdirs, defs) ==
    [extra |-> extra, incs |-> incs, libs |-> libs, libdirs |-> libdirs, defs |-> defs]

NoOpts == Opts(<<>>, <<>>, <<>>, <<>>, {})

\* src/main.cpp:369-371: the named configuration is looked up, and found
Consulted(cfgs, bc) == bc # "" /\ cfgs.present
ConfFound(cfgs, bc) == cfgs.istable /\ \E c \in cfgs.confs : c.name = bc
ConfOf(cfgs, bc) == CHOOSE c \in cfgs.confs : c.name = bc

\* src/main.cpp:373-385: the strings of the flags array of the configuration
ExtraFlags(cfgs, bc) ==
    IF Consulted(cfgs, bc) /\ ConfFound(cfgs, bc) /\ ConfOf(cfgs, bc).istable
    THEN ConfOf(cfgs, bc).flags
    ELSE <<>>

\* a plausible slip: the output of the named configuration is not looked at
OutputNameDefaultOnly(cfgs, bc) == output_name

\* src/main.cpp:367, 386-389: output_name after the configuration was read
OutputName(cfgs, bc) ==
    IF /\ Consulted(cfgs, bc) /\ ConfFound(cfgs, bc) /\ ConfOf(cfgs, bc).istable
       /\ ConfOf(cfgs, bc).output # <<>>
    THEN ConfOf(cfgs, bc).output[1]
    ELSE output_name

\* src/main.cpp:392-396: the branch that prints "Configuration not found"
Warns(cfgs, bc) == Consulted(cfgs, bc) /\ ~ConfFound(cfgs, bc)

----------------------------------------------------------------------------
(* handle_build, src/main.cpp:353-508 *)

\* a plausible slip: the exit status of the compiler is not looked at
FailedNever(status) == FALSE

\* std::system(...) != 0, src/main.cpp:476, 483, 496
Failed(status) == status # 0

\* a plausible slip: -g is passed whether or not debug mode was asked for
DebugFlagsAlways(dbg) == {"-g"}

\* src/main.cpp:446-447: -g is appended in debug mode
DebugFlags(dbg) == IF dbg THEN {"-g"} ELSE {}

\* src/main.cpp:353-458: settings are read, build/ is created, the command of
\* the executable and shared kinds is put together
BuildStart ==
    /\ bpc = "start"
    /\ buildDirExists' = TRUE
    /\ warned' = Warns(configurations, build_config)
    /\ LET name == OutputName(configurations, build_config)
           opts == Opts(ExtraFlags(configurations, build_config),
                        AllIncDirs(includepaths), AllLibArgs(StaticLinkFiles),
                        AllLinkDirArgs(LinkDirs), defines)
       IN IF btype = "BUILD_EXECUTABLE"
          THEN /\ command' = <<Cmd("compiler", AllSrcPaths(srcfiles), <<>>,
                                   PathJoin(build_dir, Path(FALSE, <<>>, name)),
                                   DebugFlags(debug)) @@ opts>>
               /\ bpc' = "run"
          ELSE IF btype = "BUILD_DYNAMICLINK"
          THEN /\ command' = <<Cmd("compiler", AllSrcPaths(srcfiles), <<>>,
                                   PathJoin(build_dir, Path(FALSE, <<>>, so_name(name))),
                                   {"-shared", "-fPIC"}) @@ opts>>
               /\ bpc' = "run"
          ELSE /\ command' = command
               /\ bpc' = "compile"
    /\ UNCHANGED <<exceptBuild, buildIn, object_files, invocations, berror>>

\* src/main.cpp:494-507: the one compiler invocation of the executable and
\* shared kinds
BuildRun ==
    /\ bpc = "run"
    /\ \E status \in ExitStatuses :
        /\ invocations' = Append(invocations, Ran(command[1], status))
        /\ IF Failed(status)
           THEN bpc' = "failed" /\ berror' = <<[stage |-> "build", path |-> ProjPath]>>
           ELSE bpc' = "done" /\ berror' = berror
    /\ UNCHANGED <<exceptBuild, buildIn, command, object_files,
                   buildDirExists, warned>>

\* src/main.cpp:460-479: one turn of the loop over ps.srcfiles
CompileOne ==
    /\ bpc = "compile"
    /\ Len(object_files) < Len(srcfiles)
    /\ LET src == srcfiles[Len(object_files) + 1]
           compile_cmd ==
               Cmd("compiler", <<SrcPath(src)>>, <<>>, ObjPath(src), {"-c"})
               @@ Opts(ExtraFlags(configurations, build_config),
                       AllIncDirs(includepaths), <<>>, <<>>, {})
       IN \E status \in ExitStatuses :
            /\ invocations' = Append(invocations, Ran(compile_cmd, status))
            /\ IF Failed(status)
               THEN /\ bpc' = "failed"
                    /\ berror' = <<[stage |-> "compile", path |-> SrcPath(src)]>>
                    /\ object_files' = object_files
               ELSE /\ bpc' = bpc
                    /\ berror' = berror
                    /\ object_files' = Append(object_files, ObjPath(src))
    /\ UNCHANGED <<exceptBuild, buildIn, command, buildDirExists, warned>>

\* src/main.cpp:480-487: ar rcs build/lib<output_name>.a <object files>
Archive ==
    /\ bpc = "compile"
    /\ Len(object_files) = Len(srcfiles)
    /\ LET ar_cmd == Cmd("ar", <<>>, object_files,
                         PathJoin(build_dir, Path(FALSE, <<>>,
                                      a_name(OutputName(configurations, build_config)))),
                         {"rcs"}) @@ NoOpts
       IN \E status \in ExitStatuses :
            /\ invocations' = Append(invocations, Ran(ar_cmd, status))
            /\ IF Failed(status)
               THEN bpc' = "failed" /\ berror' = <<[stage |-> "archive", path |-> ProjPath]>>
               ELSE bpc' = "done" /\ berror' = berror
    /\ UNCHANGED <<exceptBuild, buildIn, command, object_files,
                   buildDirExists, warned>>

\* handle_build is entered: the settings of the project have been read
BuildEntry ==
    /\ srcfiles \in SeqUpTo(SrcEntries, MaxSrc)
    /\ btype \in BuildTypes
    /\ debug \in BOOLEAN
    /\ includepaths \in IncludeLists
    /\ LinkDirs \in LinkDirLists
    /\ defines \in DefineMaps
    /\ build_config \in BuildConfigs
    /\ configurations \in ConfigurationsValues
    /\ bpc = "start"
    /\ command = <<>>
    /\ object_files = <<>>
    /\ invocations = <<>>
    /\ berror = <<>>
    /\ buildDirExists = FALSE
    /\ warned = FALSE

\* the build subsystem at rest (the other specifications)
BuildIdle ==
    /\ srcfiles = <<>>
    /\ btype = "BUILD_EXECUTABLE"
    /\ debug = FALSE
    /\ includepaths = <<>>
    /\ LinkDirs = <<>>
    /\ defines = {}
    /\ build_config = ""
    /\ configurations = Configurations(FALSE, FALSE, {})
    /\ bpc = "done"
    /\ command = <<>>
    /\ object_files = <<>>
    /\ invocations = <<>>
    /\ berror = <<>>
    /\ buildDirExists = FALSE
    /\ warned = FALSE

BuildNext == BuildStart \/ BuildRun \/ CompileOne \/ Archive

----------------------------------------------------------------------------
(* Claims on the static-archive build *)

\* C9: in static-archive mode, when the compile of the k-th source file
\* returns non-zero, handle_build fails with an error naming that file,
\* compiles no later source file and never runs the archiver.
C9_CompileFailureAborts ==
    btype = "BUILD_STATICLINK" =>
        \A k \in 1..Len(invocations) :
            (invocations[k].cmd.tool = "compiler" /\ invocations[k].status # 0) =>
                /\ bpc = "failed"
                /\ berror = <<[stage |-> "compile", path |-> SrcPath(srcfiles[k])]>>
                /\ Len(invocations) = k
                /\ \A i \in 1..Len(invocations) : invocations[i].cmd.tool # "ar"

C9_Witness ==
    /\ btype = "BUILD_STATICLINK"
    /\ Len(srcfiles) = 3
    /\ Len(invocations) = 2
    /\ invocations[1].status = 0
    /\ invocations[2].status # 0
    /\ bpc = "failed"

\* C10: in static-archive mode distinct source entries are compiled to
\* distinct object files.
C10_DistinctObjectFiles ==
    btype = "BUILD_STATICLINK" =>
        \A i, j \in 1..Len(object_files) :
            srcfiles[i] # srcfiles[j] => object_files[i] # object_files[j]

----------------------------------------------------------------------------
(* Claims on the executable build *)

\* C24: for the executable kind handle_build makes exactly one compiler
\* invocation, over all the sources, carrying -g exactly in debug mode; when
\* it exits non-zero the build fails and the success message is not printed.
C24_ExecutableOneInvocation ==
    btype = "BUILD_EXECUTABLE" =>
        /\ Len(invocations) <= 1
        /\ bpc \in {"done", "failed"} => Len(invocations) = 1
        /\ \A k \in 1..Len(invocations) :
            /\ invocations[k].cmd.tool = "compiler"
            /\ invocations[k].cmd.srcs = AllSrcPaths(srcfiles)
            /\ "-g" \in invocations[k].cmd.flags <=> debug
            /\ "-c" \notin invocations[k].cmd.flags
            /\ invocations[k].status # 0 =>
                  (bpc = "failed" /\ berror = <<[stage |-> "build", path |-> ProjPath]>>)
            /\ invocations[k].status = 0 => (bpc = "done" /\ berror = <<>>)

C24_Witness ==
    /\ btype = "BUILD_EXECUTABLE"
    /\ ~debug
    /\ Len(srcfiles) = 2
    /\ Len(invocations) = 1
    /\ invocations[1].status # 0
    /\ bpc = "failed"

----------------------------------------------------------------------------
(* Claims on the command plan of handle_build *)

\* C11: every macro of [defines] is passed as a -D argument in every compiler
\* invocation handle_build issues, in all three build kinds, the per-file
\* compiles of the static kind included.
C11_DefinesInEveryCompile ==
    \A k \in 1..Len(invocations) :
        invocations[k].cmd.tool = "compiler" =>
            defines \subseteq invocations[k].cmd.defs

\* the named configuration is asked for and is not there: the document has no
\* `configurations` table, or the table has no entry of that name
NamedConfigMissing ==
    /\ build_config # ""
    /\ ~(/\ configurations.present
         /\ configurations.istable
         /\ \E c \in configurations.confs : c.name = build_config)

\* C12: when the named configuration handle_build is given is not found (the
\* name is missing from the table, or there is no table), a warning is
\* emitted, the build goes on with the default output name and no extra
\* flags, and it never fails for this reason.
C12_MissingConfigWarnsAndDefaults ==
    (bpc # "start" /\ NamedConfigMissing) =>
        /\ warned
        /\ \A k \in 1..Len(invocations) :
              /\ invocations[k].cmd.extra = <<>>
              /\ invocations[k].cmd.out.file \in
                    { output_name, so_name(output_name), a_name(output_name) }
                    \cup { stem(SrcPath(srcfiles[i])) \o <<".", "o">> :
                             i \in 1..Len(srcfiles) }
        /\ (berror # <<>> => \E k \in 1..Len(invocations) : invocations[k].status # 0)

\* a path of the configuration as it has to reach a command: joined with the
\* project root unless it is absolute
Resolved(p) == IF p.abs THEN p ELSE Path(TRUE, ProjPath.dirs \o p.dirs, p.file)

\* C16: in every command handle_build produces, each include directory,
\* source file and static-link directory that is not absolute appears joined
\* with the project root, and each absolute one appears unchanged.
C16_PathsResolved ==
    \A k \in 1..Len(invocations) :
        LET cmd == invocations[k].cmd
        IN cmd.tool = "compiler" =>
            /\ \A i \in 1..Len(cmd.incs) : cmd.incs[i] = Resolved(includepaths[i])
            /\ \A i \in 1..Len(cmd.srcs) : cmd.srcs[i].abs
            /\ \A i \in 1..Len(cmd.libdirs) : cmd.libdirs[i] = Resolved(LinkDirs[i])

\* the output name a build has to use: the override of the named
\* configuration when there is one, the configured build name otherwise
ExpectedOutputName ==
    IF /\ build_config # ""
       /\ \E c \in configurations.confs : c.name = build_config /\ c.output # <<>>
    THEN (CHOOSE c \in configurations.confs : c.name = build_config).output[1]
    ELSE output_name

\* C19: in static-archive mode the output directory exists before the first
\* compile, the sources are compiled one at a time in list order, and the
\* archiver runs exactly once, only after every compile returned zero, with
\* all object files in source order and the output lib<outputName>.a, where
\* outputName is the override of the named configuration when present.
C19_StaticPlanOrdered ==
    btype = "BUILD_STATICLINK" =>
        /\ (invocations # <<>> => buildDirExists)
        /\ Len(invocations) <= Len(srcfiles) + 1
        /\ \A k \in 1..Len(invocations) :
              /\ \A i \in 1..(k - 1) : invocations[i].status = 0
              /\ IF k <= Len(srcfiles)
                 THEN /\ invocations[k].cmd.tool = "compiler"
                      /\ invocations[k].cmd.srcs = <<SrcPath(srcfiles[k])>>
                      /\ invocations[k].cmd.out = ObjPath(srcfiles[k])
                 ELSE /\ invocations[k].cmd.tool = "ar"
                      /\ invocations[k].cmd.objs =
                            [i \in 1..Len(srcfiles) |-> ObjPath(srcfiles[i])]
                      /\ invocations[k].cmd.out =
                            Path(TRUE, ProjPath.dirs \o <<"build">>,
                                 <<"l", "i", "b">> \o ExpectedOutputName \o <<".", "a">>)
        /\ (bpc = "done" => Len(invocations) = Len(srcfiles) + 1)

C19_Witness ==
    /\ btype = "BUILD_STATICLINK"
    /\ Len(srcfiles) = 2
    /\ bpc = "done"
    /\ build_config = "release"
    /\ ExpectedOutputName = <<"r", "e", "l">>
    /\ Len(invocations) = 3
    /\ invocations[3].cmd.tool = "ar"

----------------------------------------------------------------------------
(* PackageManager, src/helpers.cpp:46-194.  Strings that are searched are   *)
(* sequences of characters.                                                *)

Zlib131 == <<"z", "l", "i", "b", "/", "1", ".", "3", ".", "1">>
Zlib13 == <<"z", "l", "i", "b", "/", "1", ".", "3">>
Zlib131Rev == Zlib131 \o <<"#", "a", "b", "c", "1", "2", "3">>
Fmt10 == <<"f", "m", "t", "/", "1", "0">>
Fmt10Rev == Fmt10 \o <<"#", "d", "e", "f">>

\* the package references an operation is called with
PackageRefs == {Zlib131, Zlib13, Fmt10}

\* std::string::find: the first position, from 0, at which sub occurs in s,
\* npos (here -1) when it does not occur
find(s, sub) ==
    LET at == { i \in 0..(Len(s) - Len(sub)) : SubSeq(s, i + 1, i + Len(sub)) = sub }
    IN IF at = {} THEN -1 ELSE CHOOSE i \in at : \A j \in at : i <= j

\* src/helpers.cpp:137, 185: ref.find(packageRef) == 0
RefMatches(ref, req) == find(ref, req) = 0

\* fs::absolute: a relative path is joined with the working directory
CwdPath == Path(TRUE, <<"cwd">>, <<>>)
absolute(p) == PathJoin(CwdPath, p)

RECURSIVE AllAbsolute(_)
AllAbsolute(paths) ==
    IF paths = <<>> THEN <<>> ELSE <<absolute(Head(paths))>> \o AllAbsolute(Tail(paths))

\* the cpp_info of a node: each of _fmt.libs, _fmt.includedirs, _fmt.libdirs,
\* root.libs, root.includedirs and root.libdirs is <<>> (not there, or not an
\* array) or <<the array>>
CppInfo(present, fmt_libs, fmt_includedirs, fmt_libdirs, root_libs, includedirs, libdirs) ==
    [present |-> present, fmt_libs |-> fmt_libs, fmt_includedirs |-> fmt_includedirs,
     fmt_libdirs |-> fmt_libdirs, root_libs |-> root_libs,
     includedirs |-> includedirs, libdirs |-> libdirs]

NoCppInfo == CppInfo(FALSE, <<>>, <<>>, <<>>, <<>>, <<>>, <<>>)

\* a node of graph.nodes: ref is <<>> (no "ref" key) or <<the reference>>
Node(ref, cpp_info) == [ref |-> ref, cpp_info |-> cpp_info]

NoRefNode == Node(<<>>, NoCppInfo)
ZlibNode ==
    Node(<<Zlib131Rev>>,
         CppInfo(TRUE, <<<<"z">>>>,
                 <<<<Path(TRUE, <<"cache", "zlib", "include">>, <<>>)>>>>,
                 <<<<Path(TRUE, <<"cache", "zlib", "lib64">>, <<>>)>>>>,
                 <<<<"zlib">>>>,
                 <<<<Path(FALSE, <<"zlib", "include">>, <<>>)>>>>,
                 <<<<Path(TRUE, <<"cache", "zlib", "lib">>, <<>>)>>>>))
ZlibBareNode == Node(<<Zlib131Rev>>, NoCppInfo)
\* a second node of zlib/1.3.1 that has libs and no directories
ZlibLibsNode ==
    Node(<<Zlib131Rev>>,
         CppInfo(TRUE, <<>>, <<>>, <<>>, <<<<"zdeps">>>>, <<>>, <<>>))
FmtNode ==
    Node(<<Fmt10Rev>>,
         CppInfo(TRUE, <<>>, <<>>, <<>>, <<<<"fmt">>>>,
                 <<<<Path(FALSE, <<"fmt", "include">>, <<>>)>>>>, <<>>))

NodeValues == {NoRefNode, ZlibNode, ZlibBareNode, ZlibLibsNode, FmtNode}

\* install_log.json: whether the file exists, whether it has graph.nodes, and
\* the nodes in the order of their keys
Report(exists, hasNodes, nodes) ==
    [exists |-> exists, hasNodes |-> hasNodes, nodes |-> nodes]

ReportValues ==
    { Report(FALSE, FALSE, <<>>), Report(TRUE, FALSE, <<>>) }
    \cup { Report(TRUE, TRUE, n) : n \in SeqUpTo(NodeValues, MaxNodes) }

\* src/helpers.cpp:112-124: loadInstallLog throws when the file is not there
loadInstallLogThrows(rep) == ~rep.exists

\* src/helpers.cpp:134-164: what one turn of the loop over the nodes returns:
\* <<>> when the loop goes on, <<v>> when v is returned
NodeInfo(node, req, infoType) ==
    IF node.ref = <<>> THEN <<>>
    ELSE IF ~RefMatches(node.ref[1], req) THEN <<>>
    ELSE IF ~node.cpp_info.present THEN <<>>
    ELSE IF infoType = "libs"
         THEN IF node.cpp_info.fmt_libs # <<>> THEN node.cpp_info.fmt_libs
              ELSE node.cpp_info.root_libs
    ELSE IF infoType = "includedirs"
         THEN IF node.cpp_info.includedirs = <<>> THEN <<>>
              ELSE <<AllAbsolute(node.cpp_info.includedirs[1])>>
    ELSE IF node.cpp_info.libdirs = <<>> THEN <<>>
         ELSE <<AllAbsolute(node.cpp_info.libdirs[1])>>

RECURSIVE InfoLoop(_, _, _)
InfoLoop(nodes, req, infoType) ==
    IF nodes = <<>> THEN <<>>
    ELSE LET r == NodeInfo(Head(nodes), req, infoType)
         IN IF r # <<>> THEN r[1] ELSE InfoLoop(Tail(nodes), req, infoType)

\* src/helpers.cpp:126-170, on a report that exists
get_info_from_package(rep, req, infoType) ==
    IF ~rep.hasNodes THEN <<>> ELSE InfoLoop(rep.nodes, req, infoType)

\* src/helpers.cpp:75-83
getPackageInfo(rep, req) ==
    [packageRef |-> req,
     libs |-> get_info_from_package(rep, req, "libs"),
     includePaths |-> get_info_from_package(rep, req, "includedirs"),
     libPaths |-> get_info_from_package(rep, req, "libdirs")]

\* a plausible slip: remove does not look whether the package is installed
checkIfInstalledAlways(rep, req) == TRUE

\* src/helpers.cpp:172-194
checkIfInstalled(rep, req) ==
    IF loadInstallLogThrows(rep) THEN FALSE
    ELSE IF ~rep.hasNodes THEN FALSE
    ELSE \E i \in 1..Len(rep.nodes) :
            /\ rep.nodes[i].ref # <<>>
            /\ RefMatches(rep.nodes[i].ref[1], req)

\* a plausible slip: the exit status of conan remove is not looked at
RemoveFailedNever(ret) == FALSE

\* src/helpers.cpp:96: std::system(cmdRemove) != 0
RemoveFailed(ret) == ret # 0

\* one thing an operation did: a command it ran, a directory it deleted
Did(ev, ref, status) == [ev |-> ev, ref |-> ref, status |-> status]

\* PackageManager::checkIfInstalled is called
CheckIfInstalled ==
    /\ ppc = "entry"
    /\ pop' = "checkIfInstalled"
    /\ installed' = <<checkIfInstalled(report, packageRef)>>
    /\ ppc' = "returned"
    /\ UNCHANGED <<exceptPkg, report, packageRef, vendorDirs, vendor0, info, presult,
                   perror, plog>>

\* PackageManager::getPackageInfo is called
GetPackageInfo ==
    /\ ppc = "entry"
    /\ pop' = "getPackageInfo"
    /\ IF loadInstallLogThrows(report)
       THEN /\ perror' = <<"install_log.json not found, install package first.">>
            /\ presult' = presult
            /\ ppc' = "failed"
       ELSE /\ perror' = perror
            /\ presult' = <<getPackageInfo(report, packageRef)>>
            /\ ppc' = "returned"
    /\ UNCHANGED <<exceptPkg, report, packageRef, vendorDirs, vendor0, installed, info,
                   plog>>

\* src/helpers.cpp:85-92: remove is called; it returns nullopt at once, or
\* captures the PackageInfo
RemoveEnter ==
    /\ ppc = "entry"
    /\ pop' = "remove"
    /\ IF ~checkIfInstalled(report, packageRef)
       THEN /\ ppc' = "returned"
            /\ UNCHANGED <<info, perror, plog>>
       ELSE IF loadInstallLogThrows(report)
       THEN /\ ppc' = "failed"
            /\ perror' = <<"install_log.json not found, install package first.">>
            /\ UNCHANGED <<info, plog>>
       ELSE /\ ppc' = "captured"
            /\ info' = <<getPackageInfo(report, packageRef)>>
            /\ plog' = Append(plog, Did("capture", packageRef, 0))
            /\ perror' = perror
    /\ UNCHANGED <<exceptPkg, report, packageRef, vendorDirs, vendor0, installed, presult>>

\* src/helpers.cpp:94-101: conan remove <packageRef> -f
RemoveConan ==
    /\ ppc = "captured"
    /\ \E ret \in ExitStatuses :
        /\ plog' = Append(plog, Did("conan remove", packageRef, ret))
        /\ IF RemoveFailed(ret)
           THEN /\ ppc' = "failed"
                /\ perror' = <<"Failed to remove package from Conan cache.">>
           ELSE /\ ppc' = "removed"
                /\ perror' = perror
    /\ UNCHANGED <<exceptPkg, report, packageRef, vendorDirs, vendor0, pop, installed,
                   info, presult>>

\* src/helpers.cpp:103-109: <vendor>/<packageRef> is deleted when it is there,
\* and the captured PackageInfo is returned
RemoveVendor ==
    /\ ppc = "removed"
    /\ IF packageRef \in vendorDirs
       THEN /\ vendorDirs' = vendorDirs \ {packageRef}
            /\ plog' = Append(plog, Did("remove_all", packageRef, 0))
       ELSE UNCHANGED <<vendorDirs, plog>>
    /\ presult' = info
    /\ ppc' = "returned"
    /\ UNCHANGED <<exceptPkg, report, packageRef, vendor0, pop, installed, info, perror>>

\* an operation of PackageManager is entered
PkgEntry ==
    /\ report \in ReportValues
    /\ packageRef \in PackageRefs
    /\ vendorDirs \in SUBSET PackageRefs
    /\ vendor0 = vendorDirs
    /\ pop = "none"
    /\ ppc = "entry"
    /\ installed = <<>>
    /\ info = <<>>
    /\ presult = <<>>
    /\ perror = <<>>
    /\ plog = <<>>

\* the package manager at rest (the other specifications)
PkgIdle ==
    /\ report = Report(FALSE, FALSE, <<>>)
    /\ packageRef = Fmt10
    /\ vendorDirs = {}
    /\ vendor0 = {}
    /\ pop = "none"
    /\ ppc = "returned"
    /\ installed = <<>>
    /\ info = <<>>
    /\ presult = <<>>
    /\ perror = <<>>
    /\ plog = <<>>

PkgNext == CheckIfInstalled \/ GetPackageInfo \/ RemoveEnter \/ RemoveConan \/ RemoveVendor

----------------------------------------------------------------------------
(* Claims on PackageManager *)

\* C13: on a report whose one node has the reference zlib/1.3.1#abc123, the
\* lookup (checkIfInstalled, get_info_from_package) matches a request for
\* zlib/1.3.1 and does not match a request for zlib/1.3.
C13_NoVersionPrefixCollision ==
    (/\ ppc = "returned"
     /\ pop \in {"checkIfInstalled", "getPackageInfo"}
     /\ report.nodes = <<ZlibNode>>) =>
        LET hit == IF pop = "checkIfInstalled" THEN installed[1]
                   ELSE presult[1].libs # <<>>
        IN /\ (packageRef = Zlib131 => hit)
           /\ (packageRef = Zlib13 => ~hit)

\* one kind of information of a cpp_info as the shorthand is preferred: the
\* array of _fmt when it is there, that of root otherwise, nothing without both
Preferred(short, root) ==
    IF short # <<>> THEN short[1] ELSE IF root # <<>> THEN root[1] ELSE <<>>

\* C25: for a matched node that has both the `_fmt` shorthand and `root`,
\* get_info_from_package returns the values of the shorthand for each of the
\* three kinds (libs, include directories, library directories) and falls
\* back to root only for a kind the shorthand lacks.
C25_ShorthandPreferred ==
    (/\ ppc = "returned"
     /\ pop = "getPackageInfo"
     /\ report.hasNodes
     /\ Len(report.nodes) = 1
     /\ report.nodes[1].ref # <<>>
     /\ RefMatches(report.nodes[1].ref[1], packageRef)
     /\ report.nodes[1].cpp_info.present) =>
        LET ci == report.nodes[1].cpp_info
        IN /\ presult[1].libs = Preferred(ci.fmt_libs, ci.root_libs)
           /\ presult[1].includePaths =
                 AllAbsolute(Preferred(ci.fmt_includedirs, ci.includedirs))
           /\ presult[1].libPaths = AllAbsolute(Preferred(ci.fmt_libdirs, ci.libdirs))

\* the PackageInfo getPackageInfo gives for a report of the one node
FromNode(node) == getPackageInfo(Report(TRUE, TRUE, <<node>>), packageRef)

\* C30: the three fields of the PackageInfo of getPackageInfo all come from
\* one and the same node whose reference matches; data of two matching nodes
\* is never mixed.
C30_OneNodeSuppliesAll ==
    (/\ ppc = "returned"
     /\ pop = "getPackageInfo"
     /\ report.hasNodes
     /\ \E j \in 1..Len(report.nodes) :
            /\ report.nodes[j].ref # <<>>
            /\ RefMatches(report.nodes[j].ref[1], packageRef)) =>
        \E i \in 1..Len(report.nodes) :
            /\ report.nodes[i].ref # <<>>
            /\ RefMatches(report.nodes[i].ref[1], packageRef)
            /\ presult[1] = FromNode(report.nodes[i])

\* the reference of some node of the report starts with the package reference
SomeNodeStartsWith ==
    /\ report.exists
    /\ report.hasNodes
    /\ \E i \in 1..Len(report.nodes) :
        /\ report.nodes[i].ref # <<>>
        /\ Len(packageRef) <= Len(report.nodes[i].ref[1])
        /\ \A c \in 1..Len(packageRef) : report.nodes[i].ref[1][c] = packageRef[c]

\* C14: remove on a package reference that no node of the report matches, or
\* when the report file is absent, returns none, runs no external removal
\* command and deletes nothing under the vendor directory.
C14_RemoveNotInstalledIsNoOp ==
    (pop = "remove" /\ ~SomeNodeStartsWith) =>
        /\ ppc = "returned"
        /\ presult = <<>>
        /\ perror = <<>>
        /\ plog = <<>>
        /\ vendorDirs = vendor0

C14_Witness ==
    /\ pop = "remove"
    /\ ~SomeNodeStartsWith
    /\ report.exists
    /\ Len(report.nodes) = 2
    /\ packageRef \in vendorDirs
    /\ ppc = "returned"

\* C20: remove on an installed package captures the PackageInfo, then runs
\* the external removal command, then deletes the vendor subdirectory; when
\* the removal command returns non-zero, remove fails with an error, returns
\* no PackageInfo and leaves the vendor subdirectory.
C20_RemoveOrderAndFailure ==
    (pop = "remove" /\ SomeNodeStartsWith) =>
        /\ Len(plog) <= 3
        /\ \A k \in 1..Len(plog) :
              plog[k].ev = <<"capture", "conan remove", "remove_all">>[k]
        /\ (ppc = "returned" =>
              /\ Len(plog) >= 2
              /\ plog[2].status = 0
              /\ presult # <<>>
              /\ presult[1].packageRef = packageRef
              /\ vendorDirs = vendor0 \ {packageRef})
        /\ (Len(plog) >= 2 /\ plog[2].status # 0 =>
              /\ ppc = "failed"
              /\ perror # <<>>
              /\ presult = <<>>
              /\ Len(plog) = 2
              /\ vendorDirs = vendor0)
        /\ (ppc = "failed" => Len(plog) = 2 /\ plog[2].status # 0)

C20_Witness ==
    /\ pop = "remove"
    /\ SomeNodeStartsWith
    /\ packageRef \in vendor0
    /\ ppc = "failed"
    /\ Len(plog) = 2
    /\ plog[2].status # 0

----------------------------------------------------------------------------
(* getProjectSettings, src/helpers.cpp:295-460 *)

\* the value found under a key that has to hold an array: nothing, a value of
\* another type, or an array of nodes
ArrayVal(kind, elems) == [kind |-> kind, elems |-> elems]

MissingVal == ArrayVal("missing", <<>>)
GoodArray == ArrayVal("array", <<StrNode("a")>>)
MixedArray == ArrayVal("array", <<StrNode("a"), OtherNode("1"), StrNode("b")>>)
ArrayVals == {MissingVal, ArrayVal("other", <<>>), GoodArray, MixedArray}

\* the keys of [source], in the order getProjectSettings reads them
SourceKeys ==
    <<"include directories", "include files", "src files", "static_linked",
      "static_linked_dirs">>

\* the [source] tables of SettingsSpec
SourceTables ==
    { s \in [{SourceKeys[i] : i \in 1..Len(SourceKeys)} -> ArrayVals] :
        /\ s["include files"] \in {MissingVal, GoodArray}
        /\ s["static_linked"] \in {MissingVal, GoodArray} }

\* [source]: <<>> when the document has no such table
SourceValues == {<<>>} \cup {<<s>> : s \in SourceTables}

\* [ignore]: whether the table is there, and its `dirs` and `files`
Ignore(present, dirs, files) == [present |-> present, dirs |-> dirs, files |-> files]

IgnoreValues ==
    { Ignore(FALSE, MissingVal, MissingVal),
      Ignore(TRUE, MissingVal, MixedArray),
      Ignore(TRUE, ArrayVal("other", <<>>), GoodArray) }

\* a table of strings ([dependencies], [extra], [defines]) is the sequence of
\* its entries in the order of their keys; <<>> also stands for no table
KV(key, node) == [key |-> key, node |-> node]

MapValues ==
    { <<>>,
      <<KV("k1", StrNode("v1"))>>,
      <<KV("k1", StrNode("v1")), KV("k2", OtherNode("2"))>> }

\* [build]: build_name and build_type are <<>> (not there, or not a string)
\* or <<the string>>
Build(present, build_name, build_type) ==
    [present |-> present, build_name |-> build_name, build_type |-> build_type]

BuildValues ==
    { Build(FALSE, <<>>, <<>>),
      Build(TRUE, <<>>, <<>>),
      Build(TRUE, <<"app">>, <<"executable">>),
      Build(TRUE, <<"app">>, <<"static">>),
      Build(TRUE, <<>>, <<"shared">>),
      Build(TRUE, <<"app">>, <<"bogus">>) }

\* proj.name of the current project
ProjName == "demo"

\* a CPPX_Exception of getProjectSettings: what is wrong, and the key named
Err(what, key) == [what |-> what, key |-> key]

\* src/helpers.cpp:295-313: the vector readTomlArray returns
RECURSIVE StringElems(_)
StringElems(a) ==
    IF a = <<>> THEN <<>>
    ELSE (IF Head(a).str THEN <<Head(a).val>> ELSE <<>>) \o StringElems(Tail(a))

readTomlArray(v) == StringElems(v.elems)

\* src/helpers.cpp:299, 308-311: readTomlArray throws, naming the key
readTomlArrayThrows(v, key) ==
    IF v.kind = "array" THEN <<>> ELSE <<Err("not an array", key)>>

\* the first exception of a sequence of steps that each throw (<<e>>) or not
RECURSIVE FirstOf(_)
FirstOf(errs) ==
    IF errs = <<>> THEN <<>>
    ELSE IF Head(errs) # <<>> THEN Head(errs)
    ELSE FirstOf(Tail(errs))

\* src/helpers.cpp:363-387, 443-455: the loop over the entries of a table
RECURSIVE MapThrows(_, _)
MapThrows(m, what) ==
    IF m = <<>> THEN <<>>
    ELSE IF ~Head(m).node.str THEN <<Err(what, Head(m).key)>>
    ELSE MapThrows(Tail(m), what)

MapOf(m) == { [name |-> m[i].key, value |-> m[i].node.val] : i \in 1..Len(m) }

\* src/helpers.cpp:334-346
SourceThrows(src) ==
    IF src = <<>> THEN <<Err("missing [source] section", "source")>>
    ELSE FirstOf([i \in 1..Len(SourceKeys) |->
                    readTomlArrayThrows(src[1][SourceKeys[i]], SourceKeys[i])])

\* src/helpers.cpp:351-361
IgnoreThrows(ig) ==
    IF ~ig.present THEN <<>>
    ELSE FirstOf(<< IF ig.dirs.kind = "missing" THEN <<>>
                    ELSE readTomlArrayThrows(ig.dirs, "dirs"),
                    IF ig.files.kind = "missing" THEN <<>>
                    ELSE readTomlArrayThrows(ig.files, "files") >>)

\* src/helpers.cpp:421-436: the build type a build_type string stands for,
\* <<>> for none
BuildTypeOf(build_type) ==
    IF build_type = <<>> \/ build_type = <<"executable">> THEN <<"BUILD_EXECUTABLE">>
    ELSE IF build_type = <<"shared">> \/ build_type = <<"dynamic">>
         THEN <<"BUILD_DYNAMICLINK">>
    ELSE IF build_type = <<"static">> THEN <<"BUILD_STATICLINK">>
    ELSE <<>>

BuildThrows(b) ==
    IF b.present /\ BuildTypeOf(b.build_type) = <<>>
    THEN <<Err("Invalid build type", "build_type")>>
    ELSE <<>>

\* src/helpers.cpp:417-441: bset.outputName
BuildOutputName(b) ==
    IF ~b.present THEN ""
    ELSE IF b.build_name = <<>> \/ b.build_name = <<"_default">> THEN ProjName
    ELSE b.build_name[1]

\* src/helpers.cpp:417-436, src/helpers.hpp:293-302: the values bset.btype can
\* have; without [build] it is never written, and reading it can give any
\* value, a build type or not
BuildTypeValues(b) ==
    IF b.present THEN {BuildTypeOf(b.build_type)[1]}
    ELSE BuildTypes \cup {"indeterminate"}

\* the exceptions of getProjectSettings in the order of its steps
SettingsThrows(cfg) ==
    FirstOf(<< SourceThrows(cfg.source),
               IgnoreThrows(cfg.ignore),
               MapThrows(cfg.dependencies, "dependency"),
               MapThrows(cfg.extra, "extra"),
               BuildThrows(cfg.build),
               MapThrows(cfg.defines, "define") >>)

\* src/helpers.cpp:457-459: the ProjectSettings that is returned
Settings(cfg, bt) ==
    [name |-> ProjName,
     includepaths |-> readTomlArray(cfg.source[1]["include directories"]),
     includefiles |-> readTomlArray(cfg.source[1]["include files"]),
     srcfiles |-> readTomlArray(cfg.source[1]["src files"]),
     staticLinkFiles |-> readTomlArray(cfg.source[1]["static_linked"]),
     LinkDirs |-> readTomlArray(cfg.source[1]["static_linked_dirs"]),
     ignoredDirs |-> IF cfg.ignore.present THEN readTomlArray(cfg.ignore.dirs) ELSE <<>>,
     ignoredFiles |-> IF cfg.ignore.present THEN readTomlArray(cfg.ignore.files) ELSE <<>>,
     dependencies |-> MapOf(cfg.dependencies),
     extra |-> MapOf(cfg.extra),
     defines |-> MapOf(cfg.defines),
     outputName |-> BuildOutputName(cfg.build),
     btype |-> bt]

\* getProjectSettings is called on the document
GetProjectSettings ==
    /\ spc = "entry"
    /\ LET e == SettingsThrows(config)
       IN IF e # <<>>
          THEN /\ spc' = "failed"
               /\ serror' = e
               /\ sresult' = sresult
          ELSE /\ spc' = "returned"
               /\ serror' = serror
               /\ \E bt \in BuildTypeValues(config.build) :
                    sresult' = <<Settings(config, bt)>>
    /\ UNCHANGED <<exceptSet, config>>

\* config.toml as getProjectSettings finds it
SettingsEntry ==
    /\ config \in [source : SourceValues, ignore : IgnoreValues,
                   dependencies : MapValues, extra : MapValues, defines : MapValues,
                   build : BuildValues]
    /\ spc = "entry"
    /\ sresult = <<>>
    /\ serror = <<>>

\* no document is being read (the other specifications)
SettingsIdle ==
    /\ config = [source |-> <<>>, ignore |-> Ignore(FALSE, MissingVal, MissingVal),
                 dependencies |-> <<>>, extra |-> <<>>, defines |-> <<>>,
                 build |-> Build(FALSE, <<>>, <<>>)]
    /\ spc = "returned"
    /\ sresult = <<>>
    /\ serror = <<>>

SettingsNext == GetProjectSettings

----------------------------------------------------------------------------
(* Claims on getProjectSettings *)

\* C15: every ProjectSettings that getProjectSettings returns has outputName
\* equal to the build_name of the document when one is set and to the name of
\* the project otherwise, also when the document has no [build] section, and
\* in that case the build kind is executable.
C15_OutputNameDefaults ==
    sresult # <<>> =>
        /\ sresult[1].outputName =
              IF config.build.present /\ config.build.build_name # <<>>
              THEN config.build.build_name[1]
              ELSE ProjName
        /\ (~config.build.present => sresult[1].btype = "BUILD_EXECUTABLE")

\* some array that getProjectSettings reads from [source] is missing, is not
\* an array, or holds an element that is not a string
BadSourceArray ==
    /\ config.source # <<>>
    /\ \E i \in 1..Len(SourceKeys) :
        LET v == config.source[1][SourceKeys[i]]
        IN \/ v.kind # "array"
           \/ \E j \in 1..Len(v.elems) : ~v.elems[j].str

\* some value of [dependencies], [extra] or [defines] is not a string
BadMapValue ==
    \E m \in {config.dependencies, config.extra, config.defines} :
        \E i \in 1..Len(m) : ~m[i].node.str

\* C17: getProjectSettings returns complete settings or an error, never both
\* or neither; it fails when [source] is missing, when one of the five source
\* arrays is missing or not an array, when an array holds an element that is
\* not a string, and when a value of dependencies, extra or defines is not a
\* string.
C17_SchemaErrorsAbort ==
    spc \in {"returned", "failed"} =>
        /\ (sresult # <<>>) # (serror # <<>>)
        /\ (config.source = <<>> \/ BadSourceArray \/ BadMapValue) =>
              (spc = "failed" /\ sresult = <<>>)

----------------------------------------------------------------------------
(* handle_watch at the grain of the document: the callback parses           *)
(* config.toml, changes its table and writes the table back                 *)
(* (src/main.cpp:557-606), while FileWatcher::run waits for the callback    *)
(* to return (src/helpers.cpp:556-571).  A foreground command (setExtra,    *)
(* src/helpers.cpp:476-492) does the same from another process.             *)

\* config.toml: the `src files` array, the ignored files and the [extra] table
Doc(src, ign, extra) == [src |-> src, ign |-> ign, extra |-> extra]

\* the arrays that hold "src/<f>" once for each file f of a set, in any order
RECURSIVE EntryArrays(_)
EntryArrays(S) ==
    IF S = {} THEN {<<>>}
    ELSE UNION { { <<StrNode(Entry(n))>> \o a : a \in EntryArrays(S \ {n}) } : n \in S }

\* the counters of events of a run: for each name, creations and removals
NoEvents == [n \in Names |-> [c \in BOOLEAN |-> 0]]
Counted(cnt, n, c) == [cnt EXCEPT ![n][c] = @ + 1]
Total(cnt) == cnt["a.cpp"][TRUE] + cnt["a.cpp"][FALSE]
              + cnt["b.cpp"][TRUE] + cnt["b.cpp"][FALSE]

\* a plausible slip: the callback is handed to another thread and run does
\* not wait for it
InCallbackNever(pc) == FALSE

\* src/helpers.cpp:560, 567: _cb(p, ...) is a plain call; run goes on when it
\* has returned
InCallback(pc) == pc # "idle"

\* a plausible slip: the new snapshot is merged into the old one
MergeSnapshot(old, cur) == [n \in DOMAIN old \cup DOMAIN cur |->
                               IF n \in DOMAIN cur THEN cur[n] ELSE old[n]]

\* src/helpers.cpp:571: _snapshot = std::move(current)
ReplaceSnapshot(old, cur) == cur

\* a plausible slip: the writer keeps the `src files` array that is on disk
RewriteKeepsSource(old, tbl) == [tbl EXCEPT !.src = old.src]

\* src/main.cpp:598-599, src/helpers.cpp:490-491: std::ofstream truncates the
\* file and the whole table is written
Rewrite(old, tbl) == tbl

\* src/helpers.cpp:481-488: insert_or_assign into [extra]
setExtra(tbl, name, value) ==
    [tbl EXCEPT !.extra = {e \in @ : e.name # name} \cup {[name |-> name, value |-> value]}]

\* src/main.cpp:560-561: the callback is entered and parses the document
CbCall(p, created) ==
    /\ cbpc' = "parsed"
    /\ cbev' = <<[name |-> p, created |-> created, tick |-> sticks]>>
    /\ cbtbl' = doc

NoCbCall == UNCHANGED <<cbpc, cbev, cbtbl>>

\* src/helpers.cpp:536-540: the next turn of the loop takes its snapshot
SyncSnapshotOk ==
    /\ spos = "loop"
    /\ ~InCallback(cbpc)
    /\ sticks < MaxTicks
    /\ sticks' = sticks + 1
    /\ slast' = "ok"
    /\ scur' = snapshot_dir(sdir)
    /\ spend' = DOMAIN scur'
    /\ spos' = "created"
    /\ UNCHANGED <<exceptSync, sdir, ssnap, cbpc, cbev, cbtbl, doc, fgpc, fgtbl,
                   lastWriter, ncb, nenv, present0>>

\* src/helpers.cpp:542-553: snapshot_dir throws and the turn is skipped
SyncSnapshotFail ==
    /\ spos = "loop"
    /\ ~InCallback(cbpc)
    /\ sticks < MaxTicks
    /\ sticks' = sticks + 1
    /\ slast' = "failed"
    /\ UNCHANGED <<exceptSync, sdir, ssnap, scur, spos, spend, cbpc, cbev, cbtbl, doc,
                   fgpc, fgtbl, lastWriter, ncb, nenv, present0>>

\* src/helpers.cpp:556-562: one key of current
SyncCreated ==
    /\ spos = "created"
    /\ ~InCallback(cbpc)
    /\ IF spend = {}
       THEN /\ spos' = "removed"
            /\ spend' = DOMAIN ssnap
            /\ NoCbCall
       ELSE \E p \in spend :
            /\ spend' = spend \ {p}
            /\ spos' = spos
            /\ IF IsNew(ssnap, scur, p) THEN CbCall(p, TRUE) ELSE NoCbCall
    /\ UNCHANGED <<exceptSync, sdir, ssnap, scur, sticks, slast, doc, fgpc, fgtbl,
                   lastWriter, ncb, nenv, present0>>

\* src/helpers.cpp:563-571: one key of _snapshot; after the last one the
\* snapshot is replaced
SyncRemoved ==
    /\ spos = "removed"
    /\ ~InCallback(cbpc)
    /\ IF spend = {}
       THEN /\ ssnap' = ReplaceSnapshot(ssnap, scur)
            /\ spos' = "loop"
            /\ spend' = spend
            /\ NoCbCall
       ELSE \E p \in spend :
            /\ spend' = spend \ {p}
            /\ spos' = spos
            /\ ssnap' = ssnap
            /\ IF IsGone(scur, p) THEN CbCall(p, FALSE) ELSE NoCbCall
    /\ UNCHANGED <<exceptSync, sdir, scur, sticks, slast, doc, fgpc, fgtbl, lastWriter,
                   ncb, nenv, present0>>

\* src/main.cpp:563-600: the callback changes its table, writes it unless the
\* file is ignored, and returns
CbReturn ==
    /\ cbpc = "parsed"
    /\ LET ev == cbev[1]
       IN /\ IF CbWrites(cbtbl.ign, ev.name, ev.created)
             THEN /\ doc' = Rewrite(doc, [cbtbl EXCEPT !.src =
                                CbSrcFiles(cbtbl.src, cbtbl.ign, ev.name, ev.created)])
                  /\ lastWriter' = "cb"
             ELSE UNCHANGED <<doc, lastWriter>>
          /\ ncb' = Counted(ncb, ev.name, ev.created)
    /\ cbpc' = "idle"
    /\ UNCHANGED <<exceptSync, sdir, ssnap, scur, spos, spend, sticks, slast, cbev, cbtbl,
                   fgpc, fgtbl, nenv, present0>>

\* a regular file appears in the watched directory
SyncCreate ==
    /\ Total(nenv) < MaxEvents
    /\ \E n \in Names \ DOMAIN sdir :
        /\ sdir' = Put(sdir, n, 1)
        /\ nenv' = Counted(nenv, n, TRUE)
    /\ UNCHANGED <<exceptSync, ssnap, scur, spos, spend, sticks, slast, cbpc, cbev, cbtbl,
                   doc, fgpc, fgtbl, lastWriter, ncb, present0>>

\* a file of the watched directory is deleted
SyncRemove ==
    /\ Total(nenv) < MaxEvents
    /\ \E n \in DOMAIN sdir :
        /\ sdir' = Erase(sdir, n)
        /\ nenv' = Counted(nenv, n, FALSE)
    /\ UNCHANGED <<exceptSync, ssnap, scur, spos, spend, sticks, slast, cbpc, cbev, cbtbl,
                   doc, fgpc, fgtbl, lastWriter, ncb, present0>>

\* src/helpers.cpp:478-479: setExtra parses the document
FgParse ==
    /\ fgpc = "idle"
    /\ fgtbl' = doc
    /\ fgpc' = "parsed"
    /\ UNCHANGED <<exceptSync, sdir, ssnap, scur, spos, spend, sticks, slast, cbpc, cbev,
                   cbtbl, doc, lastWriter, ncb, nenv, present0>>

\* src/helpers.cpp:481-491: setExtra changes its table and writes it
FgWrite ==
    /\ fgpc = "parsed"
    /\ doc' = Rewrite(doc, setExtra(fgtbl, "compiler", "clang"))
    /\ lastWriter' = "fg"
    /\ fgpc' = "done"
    /\ UNCHANGED <<exceptSync, sdir, ssnap, scur, spos, spend, sticks, slast, cbpc, cbev,
                   cbtbl, fgtbl, ncb, nenv, present0>>

\* handle_watch has constructed its FileWatcher (src/helpers.cpp:526-530) on
\* a project whose `src files` are the files of the directory
SyncStart ==
    /\ sdir \in {m \in Maps : \A n \in DOMAIN m : m[n] = 1}
    /\ ssnap = snapshot_dir(sdir)
    /\ present0 = DOMAIN sdir
    /\ scur = EmptyMap
    /\ spos = "loop"
    /\ spend = {}
    /\ sticks = 0
    /\ slast = "idle"
    /\ cbpc = "idle"
    /\ cbev = <<>>
    /\ doc \in {Doc(a, {}, {}) : a \in EntryArrays(DOMAIN sdir)}
    /\ cbtbl = doc
    /\ fgtbl = doc
    /\ lastWriter = "none"
    /\ ncb = NoEvents
    /\ nenv = NoEvents

\* no watcher of this grain runs (the other specifications)
SyncIdle ==
    /\ sdir = EmptyMap
    /\ ssnap = EmptyMap
    /\ present0 = {}
    /\ scur = EmptyMap
    /\ spos = "loop"
    /\ spend = {}
    /\ sticks = MaxTicks
    /\ slast = "idle"
    /\ cbpc = "idle"
    /\ cbev = <<>>
    /\ doc = Doc(<<>>, {}, {})
    /\ cbtbl = doc
    /\ fgtbl = doc
    /\ fgpc = "none"
    /\ lastWriter = "none"
    /\ ncb = NoEvents
    /\ nenv = NoEvents

SyncNext ==
    SyncSnapshotOk \/ SyncSnapshotFail \/ SyncCreated \/ SyncRemoved \/ CbReturn
        \/ SyncCreate \/ SyncRemove

RaceNext == SyncNext \/ FgParse \/ FgWrite

----------------------------------------------------------------------------
(* Claims on the watcher and the document *)

\* C21: the callback and a foreground mutation each parse the whole document
\* and later write it whole, without a lock; whoever writes later leaves the
\* document as it had parsed it plus its own change, so there is an
\* interleaving in which both complete and the update of the earlier writer
\* is lost.
C21_LaterWriterWins ==
    /\ (lastWriter = "fg" => doc = setExtra(fgtbl, "compiler", "clang"))
    /\ (lastWriter = "cb" /\ cbpc = "idle") =>
          doc = [cbtbl EXCEPT !.src = CbSrcFiles(cbtbl.src, cbtbl.ign,
                                                 cbev[1].name, cbev[1].created)]

C21_Witness ==
    /\ fgpc = "done"
    /\ cbpc = "idle"
    /\ lastWriter = "fg"
    /\ Total(ncb) = 1
    /\ \E n \in Names :
        /\ ncb[n][TRUE] = 1
        /\ n \in DOMAIN sdir
        /\ Entry(n) \notin StringsOf(doc.src)

\* C22: every callback of tick k, its rewrite of the document included, has
\* returned before the snapshot of tick k+1 is taken; no callback starts
\* while another one runs.
C22_TicksOrdered ==
    /\ [](cbpc # "idle" => (cbev[1].tick = sticks /\ spos \in {"created", "removed"}))
    /\ [][sticks' # sticks => (cbpc = "idle" /\ spos = "loop" /\ spend = {})]_vars
    /\ [][cbev' # cbev => cbpc = "idle"]_vars

C22_Witness ==
    /\ sticks = 2
    /\ cbpc = "parsed"
    /\ cbev[1].tick = 2
    /\ Total(ncb) = 2

\* C23: after every successful tick the stored snapshot is the snapshot just
\* taken, and each change is reported once: callbacks never outnumber the
\* changes, between ticks the creations reported for a name less the removals
\* reported say whether it is in the snapshot and was not there at the start,
\* so a file created once and left in place is reported once and a file
\* present at construction is not reported as created.
C23_EachChangeReportedOnce ==
    /\ (spos = "loop" /\ slast = "ok") => ssnap = scur
    /\ \A n \in Names :
        /\ ncb[n][TRUE] <= nenv[n][TRUE]
        /\ ncb[n][FALSE] <= nenv[n][FALSE]
        /\ (spos = "loop" /\ cbpc = "idle") =>
              ncb[n][TRUE] - ncb[n][FALSE] =
                  (IF n \in DOMAIN ssnap THEN 1 ELSE 0) - (IF n \in present0 THEN 1 ELSE 0)

C23_Witness ==
    /\ spos = "loop"
    /\ slast = "ok"
    /\ sticks = 3
    /\ present0 # {}
    /\ \E n \in Names \ present0 :
        /\ nenv[n][TRUE] = 1
        /\ nenv[n][FALSE] = 0
        /\ ncb[n][TRUE] = 1

\* C26: when `src files` starts as the entries "src/<f>" of the files of the
\* watched directory, no file is ignored and nothing else writes the
\* document, then after every completed tick the entries of `src files` are
\* the "src/<f>" of the files of the stored snapshot.
C26_StoreFollowsDirectory ==
    (spos = "loop" /\ cbpc = "idle") =>
        /\ StringsOf(doc.src) = {Entry(n) : n \in DOMAIN ssnap}
        /\ \A i \in 1..Len(doc.src) : doc.src[i].str

C26_Witness ==
    /\ spos = "loop"
    /\ cbpc = "idle"
    /\ slast = "failed"
    /\ \E n, m \in Names : ncb[n][TRUE] >= 1 /\ ncb[m][FALSE] >= 1

----------------------------------------------------------------------------
(* handle_pkg_install and handle_pkg_remove on config.toml,                *)
(* src/main.cpp:688-799.                                                   *)

Zlib == <<"z", "l", "i", "b">>
V131 == <<"1", ".", "3", ".", "1">>
Fmt == <<"f", "m", "t">>
V10 == <<"1", "0">>

\* src/main.cpp:692: FullName = "{packageName}/{packageVersion}"
FullName(packageName, packageVersion) == packageName \o <<"/">> \o packageVersion

\* the packages cppx pkg install is given, the names cppx pkg remove is given
Packages == {[name |-> Zlib, version |-> V131], [name |-> Fmt, version |-> V10]}
RemoveArgs == {Zlib, Zlib131, Fmt, Fmt10}

\* install_log.json as conan install leaves it for a package
LogOf(ref) ==
    IF ref = Zlib131 THEN Report(TRUE, TRUE, <<ZlibNode>>)
    ELSE Report(TRUE, TRUE, <<FmtNode>>)

\* one entry of [dependencies]
Dep(name, version) == [name |-> name, version |-> version]

\* dependencies_tbl.insert_or_assign(packageName, packageVersion)
DepsAssign(deps, name, version) ==
    {d \in deps : d.name # name} \cup {Dep(name, version)}

\* dependencies_tbl.contains(key) and then erase(key), src/main.cpp:765-770
DepsErase(deps, key) == {d \in deps : d.name # key}

\* the [source] table: each of the three arrays is <<>> (no such key) or
\* <<the array>>
Source(inc, libs, dirs) == [inc |-> inc, libs |-> libs, dirs |-> dirs]

\* config.toml: [dependencies] and [source] are <<>> (no such table) or
\* <<the table>>
Config(deps, source) == [deps |-> deps, source |-> source]

IncludeDir == Path(FALSE, <<"include">>, <<>>)
FmtInclude == Path(TRUE, <<"cwd", "fmt", "include">>, <<>>)

\* the documents the commands start from: as cppx project new writes it, with
\* fmt/10 installed, with the library z linked by hand, without the tables,
\* and with a node that is not a string in static_linked
ConfigValues ==
    { Config(<<{}>>, <<Source(<<<<StrNode(IncludeDir)>>>>, <<<<>>>>, <<<<>>>>)>>),
      Config(<<{Dep(Fmt, V10)}>>,
             <<Source(<<<<StrNode(IncludeDir), StrNode(FmtInclude)>>>>,
                      <<<<StrNode("fmt"), StrNode("m")>>>>, <<<<>>>>)>>),
      Config(<<{}>>, <<Source(<<<<StrNode(IncludeDir)>>>>, <<<<StrNode("z")>>>>, <<<<>>>>)>>),
      Config(<<>>, <<>>),
      Config(<<{}>>,
             <<Source(<<<<StrNode(IncludeDir)>>>>, <<<<OtherNode("z"), StrNode("m")>>>>,
                      <<<<>>>>)>>) }

\* the for loops of src/main.cpp:725-730 from value i on
RECURSIVE AddEach(_, _, _)
AddEach(a, values, i) ==
    IF i > Len(values) THEN a ELSE AddEach(updateTomlArray(a, values[i]), values, i + 1)

\* a plausible slip: every value is appended without the presence test
AddAllPush(a, values) == a \o [i \in 1..Len(values) |-> StrNode(values[i])]

\* src/main.cpp:725-730: updateTomlArray for every value of the PackageInfo
AddAll(a, values) == AddEach(a, values, 1)

\* src/main.cpp:704-723: the tables and arrays that are not there are inserted
WithTables(tbl) ==
    LET src == IF tbl.source = <<>> THEN Source(<<>>, <<>>, <<>>) ELSE tbl.source[1]
        arrayOf(a) == IF a = <<>> THEN <<<<>>>> ELSE a
    IN Config(IF tbl.deps = <<>> THEN <<{}>> ELSE tbl.deps,
              <<Source(arrayOf(src.inc), arrayOf(src.libs), arrayOf(src.dirs))>>)

\* src/main.cpp:704-730: the table handle_pkg_install writes
Installed(tbl, packageName, packageVersion, pkgInfo) ==
    LET t == WithTables(tbl)
        s == t.source[1]
    IN Config(<<DepsAssign(t.deps[1], packageName, packageVersion)>>,
              <<Source(<<AddAll(s.inc[1], pkgInfo.includePaths)>>,
                       <<AddAll(s.libs[1], pkgInfo.libs)>>,
                       <<AddAll(s.dirs[1], pkgInfo.libPaths)>>)>>)

\* src/main.cpp:763-789: the table handle_pkg_remove writes
Removed(tbl, packageToRemove, package_info) ==
    LET without(a, values) == IF a = <<>> THEN a ELSE <<removeFromTomlArray(a[1], values)>>
    IN Config(IF tbl.deps = <<>> THEN tbl.deps ELSE <<DepsErase(tbl.deps[1], packageToRemove)>>,
              IF tbl.source = <<>> THEN tbl.source
              ELSE <<Source(without(tbl.source[1].inc, package_info.includePaths),
                            without(tbl.source[1].libs, package_info.libs),
                            without(tbl.source[1].dirs, package_info.libPaths))>>)

\* a command that has run: its name, its arguments, how it ended
Ended(op, name, version, outcome) ==
    [op |-> op, name |-> name, version |-> version, outcome |-> outcome]

\* cppx pkg install <name> -v <version>
PkgInstall ==
    /\ Len(ihist) < MaxCmds
    /\ \E pk \in Packages, status \in ExitStatuses :
        LET ref == FullName(pk.name, pk.version)
            log == LogOf(ref)
        IN IF status # 0
           THEN /\ ihist' = Append(ihist, Ended("install", pk.name, pk.version, "failed"))
                /\ UNCHANGED <<idoc, ilog>>
           ELSE /\ ilog' = log
                /\ idoc' = Installed(idoc, pk.name, pk.version, getPackageInfo(log, ref))
                /\ ihist' = Append(ihist, Ended("install", pk.name, pk.version, "done"))
    /\ idocPrev' = idoc
    /\ UNCHANGED <<exceptDeps, idoc0>>

\* cppx pkg remove <name>
PkgRemove ==
    /\ Len(ihist) < MaxCmds
    /\ \E packageToRemove \in RemoveArgs, confirmation \in BOOLEAN, status \in ExitStatuses :
        LET outcome == IF ~checkIfInstalled(ilog, packageToRemove) THEN "not installed"
                       ELSE IF ~confirmation THEN "cancelled"
                       ELSE IF RemoveFailed(status) THEN "failed"
                       ELSE "done"
        IN /\ ihist' = Append(ihist, Ended("remove", packageToRemove, <<>>, outcome))
           /\ idoc' = IF outcome = "done"
                      THEN Removed(idoc, packageToRemove, getPackageInfo(ilog, packageToRemove))
                      ELSE idoc
    /\ idocPrev' = idoc
    /\ UNCHANGED <<exceptDeps, idoc0, ilog>>

\* before the first command nothing is installed
DepsStart ==
    /\ idoc \in ConfigValues
    /\ idoc0 = idoc
    /\ idocPrev = idoc
    /\ ilog = Report(FALSE, FALSE, <<>>)
    /\ ihist = <<>>

\* the dependency commands at rest (the other specifications)
DepsIdle ==
    /\ idoc = Config(<<>>, <<>>)
    /\ idoc0 = idoc
    /\ idocPrev = idoc
    /\ ilog = Report(FALSE, FALSE, <<>>)
    /\ ihist = [i \in 1..MaxCmds |-> Ended("none", <<>>, <<>>, "done")]

DepsNext == PkgInstall \/ PkgRemove

----------------------------------------------------------------------------
(* Claims on the dependency commands *)

\* the dependencies map and the three arrays of a document as they are read,
\* a table or array that is not there reading as an empty one
Contents(tbl) ==
    LET t == WithTables(tbl)
    IN [deps |-> t.deps[1], inc |-> t.source[1].inc[1],
        libs |-> t.source[1].libs[1], dirs |-> t.source[1].dirs[1]]

\* the last two commands are installs of one package and version that succeeded
InstalledTwice ==
    /\ Len(ihist) >= 2
    /\ ihist[Len(ihist)].op = "install"
    /\ ihist[Len(ihist)].outcome = "done"
    /\ ihist[Len(ihist) - 1] = ihist[Len(ihist)]

\* C27: handle_pkg_install is idempotent on the document for an unchanged
\* report: a second install of the same package and version leaves the
\* dependencies map and the three arrays as the first install left them, with
\* no entry twice.
C27_InstallIdempotent ==
    InstalledTwice =>
        /\ idoc = idocPrev
        /\ \A d, e \in idoc.deps[1] : d.name = e.name => d = e
        /\ NoDupStrings(Contents(idoc0).inc) => NoDupStrings(Contents(idoc).inc)
        /\ NoDupStrings(Contents(idoc0).libs) => NoDupStrings(Contents(idoc).libs)
        /\ NoDupStrings(Contents(idoc0).dirs) => NoDupStrings(Contents(idoc).dirs)

C27_Witness ==
    /\ InstalledTwice
    /\ ihist[1].name = Zlib
    /\ Dep(Fmt, V10) \in idoc.deps[1]
    /\ Len(idoc.source[1].libs[1]) = 3

\* the first two commands: a package is installed, and the same package, by
\* its name or its full reference, is removed with the confirmation given
InstalledThenRemoved ==
    /\ Len(ihist) = 2
    /\ ihist[1].op = "install"
    /\ ihist[1].outcome = "done"
    /\ ihist[2].op = "remove"
    /\ ihist[2].outcome = "done"
    /\ ihist[2].name \in {ihist[1].name, FullName(ihist[1].name, ihist[1].version)}

\* nothing of the package was in the document before the install
NothingOfPackage ==
    LET pkgInfo == getPackageInfo(ilog, FullName(ihist[1].name, ihist[1].version))
        c == Contents(idoc0)
    IN /\ \A d \in c.deps : d.name # ihist[1].name
       /\ StringsOf(c.inc) \cap Range(pkgInfo.includePaths) = {}
       /\ StringsOf(c.libs) \cap Range(pkgInfo.libs) = {}
       /\ StringsOf(c.dirs) \cap Range(pkgInfo.libPaths) = {}

\* C28: an install followed by the confirmed removal of the same package is
\* a round trip on the document: when nothing of the package was in it
\* before, the dependencies map and the three arrays are afterwards what they
\* were before the install, the entries of other packages in their order.
C28_InstallRemoveRoundTrip ==
    (InstalledThenRemoved /\ NothingOfPackage) => Contents(idoc) = Contents(idoc0)

----------------------------------------------------------------------------
(* The global document ~/.cppxglobal.toml and its two writers,             *)
(* handle_project_set (src/main.cpp:292-351) and handle_profile            *)
(* (src/main.cpp:890-1035).                                                *)

\* the document: whether the file is there, the [project] table and the
\* [toolchain] table, each <<>> (no such key) or <<the table>>
GlobalFile(exists, project, toolchain) ==
    [exists |-> exists, project |-> project, toolchain |-> toolchain]

NoGlobalFile == GlobalFile(FALSE, <<>>, <<>>)

\* a [project] table: name, path, and the other keys it has
Project(name, path, rest) == [name |-> name, path |-> path, rest |-> rest]

\* a [toolchain] table as handle_profile writes it
ToolchainOf(compiler) ==
    [compiler |-> compiler, version |-> compiler \o " 1.0", path |-> "/usr/bin/" \o compiler]

\* the compilers handle_profile can find, the project names and the project
\* paths cppx project set is given
Compilers == {"g++", "clang++"}
ProjectNames == {"demo", "other"}
DemoRel == Path(FALSE, <<"demo">>, <<>>)
DemoAbs == Path(TRUE, <<"cwd", "demo">>, <<>>)
OtherAbs == Path(TRUE, <<"srv", "other">>, <<>>)
MissingAbs == Path(TRUE, <<"nowhere">>, <<>>)
ProjectPaths == {DemoRel, DemoAbs, OtherAbs, MissingAbs}

\* the directories that exist
ExistingDirs == {DemoAbs, OtherAbs}

\* fs::canonical(fs::absolute(p)): <<>> when it throws because nothing is at p
canonical(p) == IF absolute(p) \in ExistingDirs THEN <<absolute(p)>> ELSE <<>>

\* src/main.cpp:317-334, 1008-1018: the table parsed, empty without the file
ParseGlobal(f) == IF f.exists THEN f ELSE GlobalFile(TRUE, <<>>, <<>>)

\* src/main.cpp:330-339: the [project] table of the file, with path and name
\* assigned, is put back under "project"
WithProject(file, name, path) ==
    LET projectconfig == IF file.project # <<>> THEN file.project[1]
                         ELSE Project(<<>>, <<>>, {})
    IN [file EXCEPT !.project =
            <<[projectconfig EXCEPT !.path = <<path>>, !.name = <<name>>]>>]

\* a plausible slip: the file is written from a fresh table
WithToolchainOnly(file, tc) == GlobalFile(TRUE, <<>>, <<tc>>)

\* src/main.cpp:1019-1024: a new [toolchain] table is put under "toolchain"
WithToolchain(file, tc) == [file EXCEPT !.toolchain = <<tc>>]

\* src/helpers.cpp:224-294: getCurrentProject, <<>> when it throws
getCurrentProject(f) ==
    LET file == ParseGlobal(f)
    IN IF file.project = <<>> \/ file.toolchain = <<>> THEN <<>>
       ELSE IF file.project[1].name = <<>> \/ file.project[1].path = <<>> THEN <<>>
       ELSE <<[path |-> file.project[1].path[1], name |-> file.project[1].name[1],
               toolchain |-> file.toolchain[1]]>>

\* cppx project set <name> <path>
ProjectSet ==
    /\ gops < MaxOps
    /\ \E name \in ProjectNames, path \in ProjectPaths, writable \in BOOLEAN :
        LET p == canonical(path)
            ok == p # <<>> /\ writable
        IN /\ gfile' = IF ok THEN WithProject(ParseGlobal(gfile), name, p[1]) ELSE gfile
           /\ gop' = [op |-> "project set", ok |-> ok, name |-> name, path |-> path]
           /\ lastSet' = IF ok THEN <<[name |-> name, path |-> p[1]]>> ELSE lastSet
    /\ gprev' = gfile
    /\ gops' = gops + 1
    /\ UNCHANGED exceptGlobal

\* cppx profile, with the compiler chosen
Profile ==
    /\ gops < MaxOps
    /\ \E compiler \in Compilers, writable \in BOOLEAN :
        /\ gfile' = IF writable THEN WithToolchain(ParseGlobal(gfile), ToolchainOf(compiler))
                    ELSE gfile
        /\ gop' = [op |-> "profile", ok |-> writable, compiler |-> compiler]
    /\ gprev' = gfile
    /\ gops' = gops + 1
    /\ UNCHANGED <<exceptGlobal, lastSet>>

\* the global document before the first command: not there, or left by a
\* user with a [project] table that has a key of its own
GlobalStart ==
    /\ gfile \in { NoGlobalFile,
                   GlobalFile(TRUE, <<Project(<<"old">>, <<OtherAbs>>, {"note"})>>, <<>>) }
    /\ gprev = gfile
    /\ gop = [op |-> "none", ok |-> TRUE]
    /\ gops = 0
    /\ lastSet = <<>>

\* the global document at rest (the other specifications)
GlobalIdle ==
    /\ gfile = NoGlobalFile
    /\ gprev = gfile
    /\ gop = [op |-> "none", ok |-> TRUE]
    /\ gops = MaxOps
    /\ lastSet = <<>>

GlobalNext == ProjectSet \/ Profile

----------------------------------------------------------------------------
(* Claims on the global document *)

\* C29: handle_project_set replaces the name and the path of the current
\* project and leaves the toolchain as it was; handle_profile replaces the
\* toolchain and leaves the project section as it was; after any sequence of
\* the two the document has one current project, the last one set.
C29_TwoWritersKeepSections ==
    /\ (gop.op = "project set" /\ gop.ok) =>
          /\ gfile.toolchain = gprev.toolchain
          /\ gfile.project # <<>>
          /\ gfile.project[1].name = <<gop.name>>
          /\ gfile.project[1].path = <<absolute(gop.path)>>
    /\ (gop.op = "profile" /\ gop.ok) =>
          /\ gfile.project = gprev.project
          /\ gfile.toolchain = <<ToolchainOf(gop.compiler)>>
    /\ ~gop.ok => gfile = gprev
    /\ lastSet # <<>> =>
          /\ gfile.project # <<>>
          /\ gfile.project[1].name = <<lastSet[1].name>>
          /\ gfile.project[1].path = <<lastSet[1].path>>
          /\ gfile.toolchain # <<>> =>
                /\ getCurrentProject(gfile) # <<>>
                /\ getCurrentProject(gfile)[1].name = lastSet[1].name
                /\ getCurrentProject(gfile)[1].path = lastSet[1].path

C29_Witness ==
    /\ gops = 3
    /\ gop.op = "profile"
    /\ gop.ok
    /\ lastSet = <<[name |-> "other", path |-> OtherAbs]>>
    /\ gprev.toolchain # <<>>
    /\ gprev.toolchain # gfile.toolchain
    /\ gfile.project[1].rest = {"note"}

----------------------------------------------------------------------------
(* Specifications *)

ArrInit ==
    ArrStart /\ WatchIdle /\ BuildIdle /\ PkgIdle /\ SettingsIdle
        /\ SyncIdle /\ GlobalIdle /\ DepsIdle
ArrSpec == ArrInit /\ [][ArrNext]_vars

WatchInit ==
    WatchStart /\ ArrIdle /\ BuildIdle /\ PkgIdle /\ SettingsIdle
        /\ SyncIdle /\ GlobalIdle /\ DepsIdle
WatchSpec == WatchInit /\ [][WatchNext]_vars

BuildInit ==
    BuildEntry /\ ArrIdle /\ WatchIdle /\ PkgIdle /\ SettingsIdle
        /\ SyncIdle /\ GlobalIdle /\ DepsIdle
BuildSpec == BuildInit /\ [][BuildNext]_vars

PkgInit ==
    PkgEntry /\ ArrIdle /\ WatchIdle /\ BuildIdle /\ SettingsIdle
        /\ SyncIdle /\ GlobalIdle /\ DepsIdle
PkgSpec == PkgInit /\ [][PkgNext]_vars

SettingsInit ==
    SettingsEntry /\ ArrIdle /\ WatchIdle /\ BuildIdle /\ PkgIdle
        /\ SyncIdle /\ GlobalIdle /\ DepsIdle
SettingsSpec == SettingsInit /\ [][SettingsNext]_vars

\* the watcher thread is scheduled as long as it can take a step, and the
\* snapshot does not fail for ever (filesystem errors are transient)
FairWatchSpec == WatchSpec /\ WF_vars(WatcherStep) /\ SF_vars(SnapshotOk)

StopInit ==
    StopStart /\ ArrIdle /\ BuildIdle /\ PkgIdle /\ SettingsIdle
        /\ SyncIdle /\ GlobalIdle /\ DepsIdle
StopSpec == StopInit /\ [][StopNext]_vars

StillInit ==
    ArrIdle /\ WatchIdle /\ BuildIdle /\ PkgIdle /\ SettingsIdle /\ GlobalIdle /\ DepsIdle

GlobalInit ==
    GlobalStart /\ ArrIdle /\ WatchIdle /\ BuildIdle /\ PkgIdle /\ SettingsIdle
        /\ SyncIdle /\ DepsIdle
GlobalSpec == GlobalInit /\ [][GlobalNext]_vars

DepsInit ==
    DepsStart /\ ArrIdle /\ WatchIdle /\ BuildIdle /\ PkgIdle /\ SettingsIdle
        /\ SyncIdle /\ GlobalIdle
DepsSpec == DepsInit /\ [][DepsNext]_vars

SyncInit == SyncStart /\ fgpc = "none" /\ StillInit
SyncSpec == SyncInit /\ [][SyncNext]_vars

RaceInit == SyncStart /\ fgpc = "idle" /\ StillInit
RaceSpec == RaceInit /\ [][RaceNext]_vars

\* the watcher thread is scheduled as long as it can take a step
FairStopSpec == StopSpec /\ WF_vars(WatcherStep)

====
